---- MODULE Spec2Model ----
(***************************************************************************)
(* Devshine Time Tracker: the HTTP JSON API (registerRoutes), the record   *)
(* access layer (DatabaseStorage) and the time arithmetic utilities.       *)
(*                                                                         *)
(* Values that cross the API are JavaScript values.  A value is a record   *)
(* [k, a, b]: k is the kind, a and b carry the payload.                    *)
(*   undefined, null, NaN                       no payload                 *)
(*   number                                     a = the integer            *)
(*   empty                                      the string ""              *)
(*   24h       the string "HH:MM"               a = hours, b = minutes     *)
(*   AM, PM    the string "h:MM AM" / "h:MM PM" a = hours, b = minutes     *)
(*             a part that is not a number ("17:xx", "5:NaN PM") is NaNPart *)
(*   datestr   the date string "yyyy-MM-dd"     a = the calendar day       *)
(*   date      a Date, or a date and time       a = the calendar day,      *)
(*             string without time zone         b = the minute of the day  *)
(*   invalid_date   a Date that is no time (Invalid Date)                  *)
(*   garbage   a string without colon, digits or AM/PM ("abc")             *)
(*   digits    a string of digits ("2")         a = the number it writes   *)
(*   all_employees   the string "all_employees"                            *)
(*   TypeError a TypeError thrown                                          *)
(* Calendar days are integers, day 0 being Monday 1 January 2024.  A Date  *)
(* is carried as the local time of the server, to the minute; tz is the    *)
(* offset of the local time of the server from UTC, in minutes, so the    *)
(* times of the timestamp columns, which hold UTC, are tz minutes less.    *)
(* Hours computed by calculateTotalHours are carried as minutes (hours * 60)*)
(* and the total_hours column, decimal(6,2), as hundredths of an hour.  The *)
(* numbers computed from them by reports and statistics are IEEE 754       *)
(* doubles, as in JavaScript.                                              *)
(* The created_at / updated_at columns are not part of the state: the     *)
(* entries are created one after the other, so created_at grows with the   *)
(* id, and updated_at is read by no operation.  employeeRows and entryRows *)
(* are the ids of the rows of the two tables in the order of the table: a  *)
(* row that is inserted is the last, and so is a row that is updated, which*)
(* is written anew.  A query without an order answers the rows in that     *)
(* order, and a query with one keeps it among the rows that compare equal. *)
(* An insert refused when it runs, for a constraint (primary key, unique,  *)
(* not null, foreign key), has drawn its serial number, and the number is  *)
(* not drawn again; a statement whose parameter is not of the type of its  *)
(* column (no integer) or out of its range (numeric field overflow) is     *)
(* refused when the parameters are bound, before it runs, and has drawn    *)
(* none.                                                                   *)
(* calls holds the calls that are in progress and whose statements are     *)
(* steps of their own: the requests for the dashboard, the list and the    *)
(* reports, the requests that update or check out a time entry, and the    *)
(* calls of updateTimeEntry and checkoutTimeEntry of SpecConcurrent.  The  *)
(* other requests run one statement that reads or writes what the model    *)
(* keeps (those that follow it read the name or the last check-in of the   *)
(* employee, which the model does not keep), and are handled in one step,  *)
(* between the statements of the calls.  At most MaxOvertaking requests    *)
(* are handled while a call is in progress.                                *)
(***************************************************************************)
EXTENDS Integers, FiniteSets, Sequences, TLC

VARIABLES employees, nextEmployeeId, employeeRows, entries, nextEntryId, entryRows,
          req, res, calls, tz

employeeTable == <<employees, nextEmployeeId, employeeRows>>
entryTable == <<entries, nextEntryId, entryRows>>
store == <<employeeTable, entryTable>>
vars == <<store, req, res, calls, tz>>

(* ------------------------------ bounds -------------------------------- *)
\* The serial ids handed out: employees, time entries under Spec, time entries
\* under SpecEntries, time entries under SpecConcurrent.
MaxEmployees == 2
MaxEntries == 1
MaxLifecycleEntries == 1
MaxConcurrentEntries == 2

(* -------------------------- JavaScript values -------------------------- *)
Undefined == [k |-> "undefined", a |-> 0, b |-> 0]
Null == [k |-> "null", a |-> 0, b |-> 0]
NaN == [k |-> "NaN", a |-> 0, b |-> 0]
Empty == [k |-> "empty", a |-> 0, b |-> 0]
Garbage == [k |-> "garbage", a |-> 0, b |-> 0]
Num(n) == [k |-> "number", a |-> n, b |-> 0]
T24(h, m) == [k |-> "24h", a |-> h, b |-> m]
T12(h, m, p) == [k |-> p, a |-> h, b |-> m]
DateStr(d) == [k |-> "datestr", a |-> d, b |-> 0]
DateAt(d, t) == [k |-> "date", a |-> d, b |-> t]
InvalidDate == [k |-> "invalid_date", a |-> 0, b |-> 0]
AllEmployees == [k |-> "all_employees", a |-> 0, b |-> 0]
Digits(n) == [k |-> "digits", a |-> n, b |-> 0]
TypeError == [k |-> "TypeError", a |-> 0, b |-> 0]

\* The part of a time string that Number and parseInt read as NaN.
NaNPart == -1

\* JavaScript truthiness: undefined, null, NaN, 0 and "" are falsy.
Truthy(v) ==
  /\ v.k \notin {"undefined", "null", "NaN", "empty"}
  /\ ~(v.k = "number" /\ v.a = 0)

\* x || y
Or(x, y) == IF Truthy(x) THEN x ELSE y

\* Number(x)
ToNumber(v) ==
  CASE v.k = "number" -> v
    [] v.k = "digits" -> Num(v.a)
    [] v.k \in {"null", "empty"} -> Num(0)
    [] OTHER -> NaN


\* A string: the kinds of values that are strings.
IsString(v) ==
  v.k \in {"empty", "24h", "AM", "PM", "datestr", "date", "garbage", "digits",
           "all_employees"}

(* ----------------------- time arithmetic utilities --------------------- *)
\* The times these functions are applied to are strings, undefined or null.
\* formatTimeForInput adding twelve hours to every PM time and keeping
\* the period in its result.
formatTimeForInput_KeepPeriod(timeString) ==
  IF ~Truthy(timeString) THEN Empty
  ELSE IF timeString.k = "PM" THEN T12(timeString.a + 12, timeString.b, "PM")
  ELSE IF timeString.k = "AM" THEN T24(timeString.a % 12, timeString.b)
  ELSE timeString

\* The minutes are not parsed: the part of the string is kept as it is.
formatTimeForInput(timeString) ==
  IF ~Truthy(timeString) THEN Empty
  ELSE IF timeString.k \in {"AM", "PM"}
  THEN LET hourNum == IF timeString.a = NaNPart
                      THEN NaNPart
                      ELSE IF timeString.k = "PM" /\ timeString.a < 12
                      THEN timeString.a + 12
                      ELSE IF timeString.k = "AM" /\ timeString.a = 12
                      THEN 0
                      ELSE timeString.a
       IN T24(hourNum, timeString.b)
  ELSE timeString

\* A string without colon has no minutes: hours * 60 + undefined is NaN.
timeToMinutes(timeString) ==
  LET formattedTime == formatTimeForInput(timeString)
  IN IF formattedTime.k = "24h" /\ NaNPart \notin {formattedTime.a, formattedTime.b}
     THEN Num(formattedTime.a * 60 + formattedTime.b)
     ELSE NaN

\* calculateTotalHours without the check-out of the next day.
calculateTotalHours_SameDay(checkInTime, checkOutTime, breakMinutes) ==
  IF ~Truthy(checkInTime) \/ ~Truthy(checkOutTime) THEN Null
  ELSE Num(timeToMinutes(checkOutTime).a - timeToMinutes(checkInTime).a
           - breakMinutes.a)

\* The result is in minutes: the code's value times 60.
calculateTotalHours(checkInTime, checkOutTime, breakMinutes) ==
  IF ~Truthy(checkInTime) \/ ~Truthy(checkOutTime) THEN Null
  ELSE LET checkInMinutes == timeToMinutes(checkInTime)
           checkOutMinutes == timeToMinutes(checkOutTime)
       IN IF NaN \in {checkInMinutes, checkOutMinutes, breakMinutes} THEN NaN
          ELSE IF checkOutMinutes.a <= checkInMinutes.a
          THEN Num(24 * 60 + checkOutMinutes.a - checkInMinutes.a - breakMinutes.a)
          ELSE Num(checkOutMinutes.a - checkInMinutes.a - breakMinutes.a)

\* formatTime with the hour of noon in the morning.
formatTime_NoonAM(time) ==
  IF ~Truthy(time) THEN Empty
  ELSE IF time.k \in {"AM", "PM"} THEN time
  ELSE IF time.k = "24h"
  THEN LET period == IF time.a > 12 THEN "PM" ELSE "AM"
           displayHours == IF time.a % 12 = 0 THEN 12 ELSE time.a % 12
       IN T12(displayHours, time.b, period)
  ELSE IF time.k = "date" THEN T12(12, time.b % 60, "AM")
  ELSE TypeError

\* hours >= 12 is false of NaN and NaN % 12 || 12 is 12.  Of a date and
\* time string, "yyyy-MM-ddTHH:MM", the part before the colon is no number
\* and the part after it is the minutes.  The minutes of a string without
\* colon are undefined and minutes.toString() throws.
formatTime(time) ==
  IF ~Truthy(time) THEN Empty
  ELSE IF time.k \in {"AM", "PM"} THEN time
  ELSE IF time.k = "24h"
  THEN LET period == IF time.a # NaNPart /\ time.a >= 12 THEN "PM" ELSE "AM"
           displayHours == IF time.a = NaNPart \/ time.a % 12 = 0
                           THEN 12 ELSE time.a % 12
       IN T12(displayHours, time.b, period)
  ELSE IF time.k = "date" THEN T12(12, time.b % 60, "AM")
  ELSE TypeError

\* date-fns isWeekend: getDay() is 0 (Sunday) or 6 (Saturday) of the local
\* calendar day; day 0 is a Monday.
getDay(day) == (day + 1) % 7
isWeekend(day) == getDay(day) = 0 \/ getDay(day) = 6

(* --------------------------- relational store -------------------------- *)
\* total_hours decimal(6,2): the value in hours (minutes / 60) rounded to two
\* places, kept as hundredths.  5m/3 is never half-way between two hundredths.
\* NaN is a value of the column.
toDecimal(v) ==
  IF v.k = "number" THEN Num((10 * v.a + 3) \div 6) ELSE v

\* The messages of the errors thrown.
TypeErrorMessage == "Cannot read properties of undefined (reading 'toString')"
IntegerSyntaxMessage == "invalid input syntax for type integer: \"NaN\""
NumericOverflowMessage == "numeric field overflow"
NotNullMessage(columnName) ==
  IF columnName = "employee_id"
  THEN "null value in column \"employee_id\" of relation \"time_entries\" violates not-null constraint"
  ELSE "null value in column \"check_in_time\" of relation \"time_entries\" violates not-null constraint"
ForeignKeyMessage ==
  "insert or update on table \"time_entries\" violates foreign key constraint \"time_entries_employee_id_employees_id_fk\""

\* time_entries: employee_id integer not null references employees(id),
\* check_in_time text not null, break_minutes integer, total_hours
\* decimal(6,2): less than 10000 hours either way.
\* The error of a statement for the values it is given, "" when there is
\* none: a value that is not of the type of its column or out of its range
\* is refused whatever the rows of the table are.  A value that is
\* undefined is not given.
timeEntryValueError(values) ==
  IF \/ values.employeeId.k \notin {"number", "null", "undefined"}
     \/ values.breakMinutes.k \notin {"number", "null", "undefined"}
  THEN IntegerSyntaxMessage
  ELSE IF values.totalHours.k = "number"
          /\ (values.totalHours.a <= -1000000 \/ values.totalHours.a >= 1000000)
  THEN NumericOverflowMessage
  ELSE ""

\* The error of the statement that writes row, "" when there is none: the
\* error for its values, or else the constraint the row violates.
timeEntryRowError(row) ==
  IF timeEntryValueError(row) # "" THEN timeEntryValueError(row)
  ELSE IF row.employeeId.k \in {"null", "undefined"}
  THEN NotNullMessage("employee_id")
  ELSE IF row.checkInTime.k \in {"null", "undefined"}
  THEN NotNullMessage("check_in_time")
  ELSE IF row.employeeId.a \notin DOMAIN employees
  THEN ForeignKeyMessage
  ELSE ""

timeEntryRowOk(row) == timeEntryRowError(row) = ""

\* The ids rows without id, and the ids of rows that are in S: the order of
\* the table after a row is removed, and the rows of S in the order of the
\* table.
without(rows, id) == SelectSeq(rows, LAMBDA x : x # id)
inOrder(rows, S) == SelectSeq(rows, LAMBDA x : x \in S)

\* A column of an inserted row that the statement leaves undefined is null;
\* break_minutes has the default 0.
column(v) == IF v = Undefined THEN Null ELSE v

getTimeEntryById(id) ==
  IF id \in DOMAIN entries THEN entries[id] ELSE Undefined

\* db.update(...).set(updateData): a key whose value is undefined is not set.
setColumn(old, new) == IF new = Undefined THEN old ELSE new

\* The id of the row is drawn when the statement runs: a row refused by a
\* constraint of the table (not null, foreign key) has drawn one.  A
\* statement with a parameter that is no integer, or with a total_hours out
\* of the range of its column, is refused when its parameters are bound,
\* before it runs, and has drawn none.
createTimeEntry(data) ==
  LET totalHoursValue ==
        IF Truthy(data.checkOutTime)
        THEN calculateTotalHours(data.checkInTime, data.checkOutTime,
                                 Or(data.breakMinutes, Num(0)))
        ELSE Null
      formattedCheckInTime == formatTime(data.checkInTime)
      formattedCheckOutTime ==
        IF Truthy(data.checkOutTime) THEN formatTime(data.checkOutTime) ELSE Undefined
      row == [employeeId |-> data.employeeId,
              date |-> data.date,
              checkInTime |-> formattedCheckInTime,
              checkOutTime |-> column(formattedCheckOutTime),
              breakMinutes |-> IF data.breakMinutes = Undefined
                               THEN Num(0)
                               ELSE data.breakMinutes,
              totalHours |-> toDecimal(totalHoursValue)]
  IN IF TypeError \in {formattedCheckInTime, formattedCheckOutTime}
     THEN [ret |-> "throw", message |-> TypeErrorMessage,
           entries |-> entries, nextEntryId |-> nextEntryId, rows |-> entryRows]
     ELSE IF ~timeEntryRowOk(row)
     THEN [ret |-> "throw", message |-> timeEntryRowError(row),
           entries |-> entries,
           nextEntryId |-> IF timeEntryValueError(row) # ""
                           THEN nextEntryId ELSE nextEntryId + 1,
           rows |-> entryRows]
     ELSE [ret |-> "row", message |-> "",
           entries |-> entries @@ (nextEntryId :> row),
           nextEntryId |-> nextEntryId + 1,
           rows |-> Append(entryRows, nextEntryId)]

\* The update prepared by updateTimeEntry from the data of the call and the
\* entry it has read: the keys of data, and totalHours when the check-in
\* and the check-out time are known.
updateDataOf(data, currentEntry) ==
  LET checkInTime == Or(data.checkInTime, currentEntry.checkInTime)
      checkOutTime == Or(data.checkOutTime, currentEntry.checkOutTime)
      breakMinutes == IF data.breakMinutes # Undefined
                      THEN data.breakMinutes
                      ELSE currentEntry.breakMinutes
      totalHours ==
        IF Truthy(checkInTime) /\ Truthy(checkOutTime)
        THEN calculateTotalHours(checkInTime, checkOutTime,
                                 Or(breakMinutes, Num(0)))
        ELSE Undefined
  IN [employeeId |-> data.employeeId,
      date |-> data.date,
      checkInTime |-> IF Truthy(data.checkInTime)
                      THEN formatTime(data.checkInTime)
                      ELSE data.checkInTime,
      checkOutTime |-> IF Truthy(data.checkOutTime)
                       THEN formatTime(data.checkOutTime)
                       ELSE data.checkOutTime,
      breakMinutes |-> data.breakMinutes,
      totalHours |-> toDecimal(totalHours)]

\* The update statement without its where clause: every row is updated.
dbUpdate_NoWhere(id, updateData) ==
  IF id \notin DOMAIN entries
  THEN [ret |-> "undefined", message |-> "", entries |-> entries, rows |-> entryRows]
  ELSE [ret |-> "row", message |-> "",
        entries |-> [i \in DOMAIN entries |->
                       [f \in DOMAIN entries[i] |->
                          setColumn(entries[i][f], updateData[f])]],
        rows |-> entryRows]

\* db.update(timeEntries).set(updateData).where(id).returning(): the row of
\* the table at the moment of the statement is updated; without a row
\* nothing is returned.  updateData is not reached when formatTime has
\* thrown, and a value of it that its column does not take is refused
\* with or without a row.
dbUpdate(id, updateData) ==
  IF TypeError \in {updateData.checkInTime, updateData.checkOutTime}
  THEN [ret |-> "throw", message |-> TypeErrorMessage, entries |-> entries,
        rows |-> entryRows]
  ELSE IF timeEntryValueError(updateData) # ""
  THEN [ret |-> "throw", message |-> timeEntryValueError(updateData),
        entries |-> entries, rows |-> entryRows]
  ELSE IF id \notin DOMAIN entries
  THEN [ret |-> "undefined", message |-> "", entries |-> entries, rows |-> entryRows]
  ELSE LET row == [f \in DOMAIN entries[id] |->
                     setColumn(entries[id][f], updateData[f])]
       IN IF timeEntryRowOk(row)
          THEN [ret |-> "row", message |-> "",
                entries |-> [entries EXCEPT ![id] = row],
                rows |-> Append(without(entryRows, id), id)]
          ELSE [ret |-> "throw", message |-> timeEntryRowError(row),
                entries |-> entries, rows |-> entryRows]

\* deleteTimeEntry without its where clause.
deleteTimeEntry_NoWhere(id) == [entries |-> <<>>, rows |-> <<>>]

deleteTimeEntry(id) ==
  [entries |-> [i \in DOMAIN entries \ {id} |-> entries[i]],
   rows |-> without(entryRows, id)]

\* Of an employee the id, the email, the position and the status are kept;
\* no operation reads the other columns (name, created_at, updated_at).
\* employees: id serial primary key, email text unique.  The row id :> row
\* cannot be added to the rows others.
employeeConflict(id, row, others) ==
  \/ id \in DOMAIN others
  \/ \E i \in DOMAIN others : others[i].email = row.email

\* employeeData is the validated employee: the keys it carries are its
\* DOMAIN.  With an id of its own the row draws none; a drawn id is not
\* given back when the row is refused.
createEmployee(employeeData) ==
  LET drawn == "id" \notin DOMAIN employeeData
      id == IF drawn THEN nextEmployeeId ELSE employeeData.id
      row == [email |-> employeeData.email,
              position |-> employeeData.position,
              status |-> "active"]
      next == IF drawn THEN nextEmployeeId + 1 ELSE nextEmployeeId
  IN IF employeeConflict(id, row, employees)
     THEN [ret |-> "throw", employees |-> employees, nextEmployeeId |-> next,
           rows |-> employeeRows]
     ELSE [ret |-> "row", employees |-> employees @@ (id :> row),
           nextEmployeeId |-> next, rows |-> Append(employeeRows, id)]

\* data is the partial employee: the keys it carries are its DOMAIN, and
\* every one of them is set, the id too.  The statement is refused when the
\* new id or email is that of another employee, or when the id changes
\* while a time entry refers to it.
updateEmployee(id, data) ==
  IF id \notin DOMAIN employees
  THEN [ret |-> "undefined", employees |-> employees, rows |-> employeeRows]
  ELSE LET newId == IF "id" \in DOMAIN data THEN data.id ELSE id
           row == [f \in DOMAIN employees[id] |->
                     IF f \in DOMAIN data THEN data[f] ELSE employees[id][f]]
           others == [i \in DOMAIN employees \ {id} |-> employees[i]]
       IN IF \/ employeeConflict(newId, row, others)
             \/ newId # id /\ \E e \in DOMAIN entries : entries[e].employeeId = Num(id)
          THEN [ret |-> "throw", employees |-> employees, rows |-> employeeRows]
          ELSE [ret |-> "row", employees |-> others @@ (newId :> row),
                rows |-> Append(without(employeeRows, id), newId)]
(* ------------------------------ calendar ------------------------------- *)
\* date-fns on local times.  The last instant of a day is its last minute.
EndOfDayMinute == 24 * 60 - 1
startOfDay(date) == DateAt(date.a, 0)
endOfDay(date) == DateAt(date.a, EndOfDayMinute)
subDays(date, amount) == DateAt(date.a - amount, date.b)

\* x <= y on Dates; between(x, lo, hi) is lo <= x AND x <= hi.
dateLeq(x, y) == x.a < y.a \/ (x.a = y.a /\ x.b <= y.b)
between(x, lo, hi) == dateLeq(lo, x) /\ dateLeq(x, hi)

\* startOfWeek with weeks that start on Sunday.
startOfWeek_Sunday(date) == DateAt(date.a - ((date.a + 1) % 7), 0)

\* startOfWeek / endOfWeek with weekStartsOn: 1.
startOfWeek(date) ==
  LET day == getDay(date.a)
      diff == (IF day < 1 THEN 7 ELSE 0) + day - 1
  IN DateAt(date.a - diff, 0)
endOfWeek(date) ==
  LET day == getDay(date.a)
      diff == (IF day < 1 THEN -7 ELSE 0) + 6 - (day - 1)
  IN DateAt(date.a + diff, EndOfDayMinute)

\* The months of 2024 that the calendar covers, by their lengths in days.
MonthLengths == <<31, 29, 31, 30>>
RECURSIVE monthStart(_)
monthStart(m) == IF m = 1 THEN 0 ELSE monthStart(m - 1) + MonthLengths[m - 1]
getMonth(day) ==
  CHOOSE m \in DOMAIN MonthLengths :
    monthStart(m) <= day /\ day < monthStart(m) + MonthLengths[m]
startOfMonth(date) == DateAt(monthStart(getMonth(date.a)), 0)
endOfMonth(date) ==
  DateAt(monthStart(getMonth(date.a)) + MonthLengths[getMonth(date.a)] - 1,
         EndOfDayMinute)


(* --------------------------- JavaScript numbers ------------------------ *)
\* The hours that reports and statistics compute are doubles.  A double is
\* [k, neg, n]: k is "double" or "NaN", neg the sign and n the magnitude, a
\* number of Limbs digits in base Base, least digit first, the first
\* FractionLimbs digits being the fraction.  The doubles computed are the
\* hundredths of the total_hours column, their sums and the quotients of
\* such sums by an integer less than Base.  A hundredth is at least 2^-7,
\* so it and every sum are multiples of 2^-59 that are less than 2^30; a
\* quotient that is not 0 is more than 2^-74, so its 53 bits and the bit
\* that rounds them are above 2^-128.  Every such double is exact in n;
\* every operation rounds its exact result to 53 bits, to nearest and to
\* even on a tie.
BitsPerLimb == 15
Base == 2^BitsPerLimb
FractionLimbs == 9
Limbs == FractionLimbs + 2
Bits == 53

pow2(b) ==
  CASE b = 0 -> 1 [] b = 1 -> 2 [] b = 2 -> 4 [] b = 3 -> 8 [] b = 4 -> 16
    [] b = 5 -> 32 [] b = 6 -> 64 [] b = 7 -> 128 [] b = 8 -> 256
    [] b = 9 -> 512 [] b = 10 -> 1024 [] b = 11 -> 2048 [] b = 12 -> 4096
    [] b = 13 -> 8192 [] b = 14 -> 16384

\* x + sign * y from digit i on, with carry c; sign is 1 or -1 and x >= y
\* when it is -1.
RECURSIVE addFrom(_, _, _, _, _)
addFrom(x, y, sign, i, c) ==
  IF i > Limbs THEN <<>>
  ELSE LET s == x[i] + sign * y[i] + c
       IN <<s % Base>> \o addFrom(x, y, sign, i + 1, s \div Base)

\* -1, 0 or 1 as x is less than, equal to or more than y, from digit i down.
RECURSIVE compareFrom(_, _, _)
compareFrom(x, y, i) ==
  IF i = 0 THEN 0
  ELSE IF x[i] # y[i] THEN (IF x[i] < y[i] THEN -1 ELSE 1)
  ELSE compareFrom(x, y, i - 1)

\* The number of bits of x from digit i down.
RECURSIVE bitLengthFrom(_, _)
bitLengthFrom(x, i) ==
  IF i = 0 THEN 0
  ELSE IF x[i] = 0 THEN bitLengthFrom(x, i - 1)
  ELSE BitsPerLimb * (i - 1)
       + (CHOOSE b \in 1..BitsPerLimb :
            pow2(b - 1) <= x[i] /\ (b = BitsPerLimb \/ x[i] < pow2(b)))

\* 2^q as a magnitude.
unit(q) ==
  [i \in 1..Limbs |-> IF i = q \div BitsPerLimb + 1 THEN pow2(q % BitsPerLimb) ELSE 0]

\* x rounded to Bits bits; sticky: the exact value is more than x.
round53(x, sticky) ==
  LET q == bitLengthFrom(x, Limbs) - Bits
  IN IF q <= 0 THEN x
     ELSE LET a == q \div BitsPerLimb
              b == q % BitsPerLimb
              floor == [i \in 1..Limbs |->
                          IF i <= a THEN 0
                          ELSE IF i = a + 1 THEN (x[i] \div pow2(b)) * pow2(b)
                          ELSE x[i]]
              rem == addFrom(x, floor, -1, 1, 0)
              cmp == compareFrom(rem, unit(q - 1), Limbs)
              up == \/ cmp = 1
                    \/ cmp = 0 /\ (sticky \/ (x[a + 1] \div pow2(b)) % 2 = 1)
          IN IF up THEN addFrom(floor, unit(q), 1, 1, 0) ELSE floor

\* x \div k from digit i down with the remainder rem carried in: the
\* remainder, then the digits of the quotient.
RECURSIVE divFrom(_, _, _, _)
divFrom(x, k, i, rem) ==
  IF i = 0 THEN <<rem>>
  ELSE LET cur == rem * Base + x[i]
       IN divFrom(x, k, i - 1, cur % k) \o <<cur \div k>>

\* x * k from digit i on, with carry c.
RECURSIVE mulFrom(_, _, _, _)
mulFrom(x, k, i, c) ==
  IF i > Limbs THEN <<>>
  ELSE LET s == x[i] * k + c
       IN <<s % Base>> \o mulFrom(x, k, i + 1, s \div Base)

ZeroLimbs == [i \in 1..Limbs |-> 0]
NaNd == [k |-> "NaN", neg |-> FALSE, n |-> ZeroLimbs]
dbl(neg, n) == [k |-> "double", neg |-> neg /\ n # ZeroLimbs, n |-> n]
ZeroD == dbl(FALSE, ZeroLimbs)

\* The double of the integer h.
fromInt(h) ==
  LET m == IF h < 0 THEN -h ELSE h
  IN dbl(h < 0, [i \in 1..Limbs |->
                   IF i = FractionLimbs + 1 THEN m % Base
                   ELSE IF i = FractionLimbs + 2 THEN m \div Base
                   ELSE 0])

\* x / k for an integer k, 0 < k < Base.
ddiv(x, k) ==
  IF x.k = "NaN" THEN NaNd
  ELSE LET r == divFrom(x.n, k, Limbs, 0)
           q == [i \in 1..Limbs |-> r[i + 1]]
       IN dbl(x.neg, round53(q, r[1] # 0))

\* x + y
dadd(x, y) ==
  IF x.k = "NaN" \/ y.k = "NaN" THEN NaNd
  ELSE IF x.neg = y.neg
  THEN dbl(x.neg, round53(addFrom(x.n, y.n, 1, 1, 0), FALSE))
  ELSE IF compareFrom(x.n, y.n, Limbs) >= 0
  THEN dbl(x.neg, round53(addFrom(x.n, y.n, -1, 1, 0), FALSE))
  ELSE dbl(y.neg, round53(addFrom(y.n, x.n, -1, 1, 0), FALSE))

\* x || 0 for a number x
orZero(x) == IF x.k = "NaN" THEN ZeroD ELSE x

\* Number(s) for s the text of a numeric(6,2): h hundredths, or NaN.
num(v) == IF v = NaN THEN NaNd ELSE ddiv(fromInt(v.a), 100)

\* parseFloat(x.toFixed(2)), in hundredths: the exact value of x to the
\* nearest hundredth, a half away from zero.
toFixed2(x) ==
  IF x.k = "NaN" THEN NaN
  ELSE LET m == addFrom(mulFrom(x.n, 100, 1, 0),
                        unit(BitsPerLimb * FractionLimbs - 1), 1, 1, 0)
           n == m[FractionLimbs + 1] + Base * m[FractionLimbs + 2]
       IN Num(IF x.neg THEN -n ELSE n)

\* What JSON.stringify writes for a number: null for NaN.
jsonNumber(x) == IF x.k = "NaN" THEN [x EXCEPT !.k = "null"] ELSE x

(* ------------------------------- reports ------------------------------- *)
\* The sum of f over the set S of its arguments.
RECURSIVE Sum(_, _)
Sum(f, S) ==
  IF S = {} THEN 0
  ELSE LET x == CHOOSE x \in S : TRUE IN f[x] + Sum(f, S \ {x})

\* The place of the row id in the order rows.
place(rows, id) == CHOOSE i \in DOMAIN rows : rows[i] = id

\* The ids in S ordered by date, entries of one date in the order of the
\* table.
RECURSIVE oldestFirst(_)
oldestFirst(S) ==
  IF S = {} THEN <<>>
  ELSE LET m == CHOOSE x \in S :
                  \A y \in S :
                     \/ ~dateLeq(entries[y].date, entries[x].date)
                     \/ /\ entries[y].date = entries[x].date
                        /\ place(entryRows, x) <= place(entryRows, y)
       IN <<m>> \o oldestFirst(S \ {m})

\* total_hours is read back as a string: null is falsy, every other value
\* is truthy ("0.00" and "NaN" too).
hasTotalHours(entry) == entry.totalHours # Null
hoursOf(entry) == num(entry.totalHours)

\* rows.reduce((acc, curr) => acc + (curr.totalHours ?
\* Number(curr.totalHours) : 0), 0) over the first n of the rows.
RECURSIVE sumHours(_, _)
sumHours(rows, n) ==
  IF n = 0 THEN ZeroD
  ELSE dadd(sumHours(rows, n - 1),
            IF hasTotalHours(entries[rows[n]]) THEN hoursOf(entries[rows[n]])
            ELSE ZeroD)

\* The ids of the entries dated in [from, to] by the where clause of a
\* report: employeeId restricts it only when it is truthy.
entriesBetween(from, to, employeeId) ==
  {id \in DOMAIN entries :
     /\ between(entries[id].date, from, to)
     /\ Truthy(employeeId) => entries[id].employeeId = employeeId}

\* values[empId] = (values[empId] || 0) + Number(entry.totalHours) after
\* the first n of the rows, n > 0.
RECURSIVE valueAfter(_, _)
valueAfter(rows, n) ==
  dadd(IF n = 1 THEN ZeroD ELSE orZero(valueAfter(rows, n - 1)),
       hoursOf(entries[rows[n]]))

\* The values of one bucket: for each employee with a totalHours among the
\* rows of the bucket, what the loop over them leaves.
bucketValues(rows) ==
  LET counted == SelectSeq(rows, LAMBDA id : hasTotalHours(entries[id]))
  IN [e \in {entries[counted[i]].employeeId.a : i \in DOMAIN counted} |->
        LET own == SelectSeq(counted, LAMBDA id : entries[id].employeeId.a = e)
        IN valueAfter(own, Len(own))]

\* The days from current on, one apart, that are <= endDate.
RECURSIVE dailyRange(_, _)
dailyRange(current, endDate) ==
  IF dateLeq(current, endDate)
  THEN <<current.a>> \o dailyRange(DateAt(current.a + 1, current.b), endDate)
  ELSE <<>>

getDailyReportData(startDate, endDate, employeeId) ==
  LET selected == oldestFirst(entriesBetween(startOfDay(startDate), endOfDay(endDate),
                                             employeeId))
      dateRange == dailyRange(startDate, endDate)
  IN [i \in DOMAIN dateRange |->
        [key |-> dateRange[i],
         values |-> bucketValues(SelectSeq(selected,
                      LAMBDA id : entries[id].date.a = dateRange[i]))]]

\* The starts of the weeks from current on, seven days apart, that are
\* <= adjustedEnd.
RECURSIVE weeklyRange(_, _)
weeklyRange(current, adjustedEnd) ==
  IF dateLeq(current, adjustedEnd)
  THEN <<startOfWeek(current).a>>
       \o weeklyRange(DateAt(current.a + 7, current.b), adjustedEnd)
  ELSE <<>>

getWeeklyReportData(startDate, endDate, employeeId) ==
  LET adjustedStart == startOfWeek(startDate)
      adjustedEnd == endOfWeek(endDate)
      selected == oldestFirst(entriesBetween(startOfDay(adjustedStart),
                                             endOfDay(adjustedEnd), employeeId))
      weekRange == weeklyRange(adjustedStart, adjustedEnd)
  IN [i \in DOMAIN weekRange |->
        [key |-> weekRange[i],
         values |-> bucketValues(SelectSeq(selected,
                      LAMBDA id : startOfWeek(entries[id].date).a = weekRange[i]))]]

\* The starts of the months from current (the first of a month) on that are
\* <= adjustedEnd.
RECURSIVE monthlyRange(_, _)
monthlyRange(current, adjustedEnd) ==
  IF dateLeq(current, adjustedEnd)
  THEN <<startOfMonth(current).a>>
       \o monthlyRange(DateAt(endOfMonth(current).a + 1, current.b), adjustedEnd)
  ELSE <<>>

getMonthlyReportData(startDate, endDate, employeeId) ==
  LET adjustedStart == startOfMonth(startDate)
      adjustedEnd == endOfMonth(endDate)
      selected == oldestFirst(entriesBetween(startOfDay(adjustedStart),
                                             endOfDay(adjustedEnd), employeeId))
      monthRange == monthlyRange(adjustedStart, adjustedEnd)
  IN [i \in DOMAIN monthRange |->
        [key |-> monthRange[i],
         values |-> bucketValues(SelectSeq(selected,
                      LAMBDA id : startOfMonth(entries[id].date).a = monthRange[i]))]]

getCustomReportData(startDate, endDate, employeeId) ==
  getDailyReportData(startDate, endDate, employeeId)

\* The active employees, as the query answers them: in the order of the
\* table.
activeEmployees ==
  inOrder(employeeRows, {id \in DOMAIN employees : employees[id].status = "active"})

\* employeesToReport reporting on the active employees whatever employeeId
\* is.
employeesToReport_ActiveOnly(employeeId) == activeEmployees

\* The employees getEmployeeSummaryData reports on, in their order: the
\* employee of the id, if there is one, or the active employees.
employeesToReport(employeeId) ==
  IF Truthy(employeeId)
  THEN inOrder(employeeRows, {id \in DOMAIN employees : Num(id) = employeeId})
  ELSE activeEmployees

\* The summary of one employee and the number of the entries it is
\* computed from.
summaryRow(employee, startDate, endDate) ==
  LET ids == {id \in DOMAIN entries :
                /\ entries[id].employeeId = Num(employee)
                /\ between(entries[id].date, startOfDay(startDate), endOfDay(endDate))}
      workingDays == Cardinality({id \in ids : entries[id].totalHours # Null})
      totalHours == sumHours(inOrder(entryRows, ids), Cardinality(ids))
      totalBreakMinutes ==
        Sum([id \in ids |-> Or(entries[id].breakMinutes, Num(0)).a], ids)
  IN [employeeId |-> employee,
      totalDays |-> workingDays,
      totalHours |-> totalHours,
      avgDailyHours |-> IF workingDays > 0 THEN ddiv(totalHours, workingDays) ELSE ZeroD,
      totalBreakMinutes |-> totalBreakMinutes,
      entries |-> Cardinality(ids)]

\* The rows of the summary of the employees toReport, those without
\* entries skipped; a row is [employeeId, totalDays, totalHours,
\* avgDailyHours, totalBreakMinutes].
summaryRows(toReport, startDate, endDate) ==
  LET withEntries ==
        SelectSeq(toReport, LAMBDA e : summaryRow(e, startDate, endDate).entries > 0)
  IN [i \in DOMAIN withEntries |->
        [f \in {"employeeId", "totalDays", "totalHours", "avgDailyHours",
                "totalBreakMinutes"} |->
           summaryRow(withEntries[i], startDate, endDate)[f]]]

\* summaryData.reduce((acc, curr) => acc + curr[field], 0) over the first n
\* rows, for a field of doubles.
RECURSIVE sumField(_, _, _)
sumField(summaryData, field, n) ==
  IF n = 0 THEN ZeroD
  ELSE dadd(sumField(summaryData, field, n - 1), summaryData[n][field])

\* employeeTotals with the average of the averages of the rows.
employeeTotals_MeanOfAverages(summaryData) ==
  LET rows == DOMAIN summaryData
  IN [totalDays |-> Sum([i \in rows |-> summaryData[i].totalDays], rows),
      totalHours |-> sumField(summaryData, "totalHours", Len(summaryData)),
      avgDailyHours |->
        IF Len(summaryData) > 0
        THEN ddiv(sumField(summaryData, "avgDailyHours", Len(summaryData)),
                  Len(summaryData))
        ELSE ZeroD,
      totalBreakMinutes |->
        Sum([i \in rows |-> summaryData[i].totalBreakMinutes], rows)]

\* The totals of the rows of the summary; without rows the initial value,
\* which is the same sums.
employeeTotals(summaryData) ==
  LET rows == DOMAIN summaryData
      totalDays == Sum([i \in rows |-> summaryData[i].totalDays], rows)
      totalHours == sumField(summaryData, "totalHours", Len(summaryData))
      totalBreakMinutes == Sum([i \in rows |-> summaryData[i].totalBreakMinutes], rows)
  IN [totalDays |-> totalDays,
      totalHours |-> totalHours,
      avgDailyHours |-> IF totalDays > 0 THEN ddiv(totalHours, totalDays) ELSE ZeroD,
      totalBreakMinutes |-> totalBreakMinutes]

\* filters is [reportType, dateFrom, dateTo, employeeId], dateFrom and
\* dateTo Dates or undefined; now is new Date().  The range of the report.
reportRange(filters, now) ==
  [from |-> IF filters.dateFrom # Undefined THEN filters.dateFrom ELSE subDays(now, 7),
   to |-> IF filters.dateTo # Undefined THEN filters.dateTo ELSE now]

\* The chart of the report, by its type.
chartDataOf(filters, now) ==
  LET startDate == reportRange(filters, now).from
      endDate == reportRange(filters, now).to
  IN CASE filters.reportType = "daily" ->
            getDailyReportData(startDate, endDate, filters.employeeId)
       [] filters.reportType = "weekly" ->
            getWeeklyReportData(startDate, endDate, filters.employeeId)
       [] filters.reportType = "monthly" ->
            getMonthlyReportData(startDate, endDate, filters.employeeId)
       [] OTHER -> getCustomReportData(startDate, endDate, filters.employeeId)

\* The report returned, from what its statements have read.
reportOf(filters, now, allEmployees, chartData, summaryData) ==
  [title |-> CASE filters.reportType = "daily" -> "Daily Summary"
               [] filters.reportType = "weekly" -> "Weekly Summary"
               [] filters.reportType = "monthly" -> "Monthly Summary"
               [] OTHER -> "Custom Range Summary",
   chartData |-> chartData,
   summaryData |-> summaryData,
   employeeTotals |-> employeeTotals(summaryData),
   employees |-> allEmployees,
   dateRange |-> reportRange(filters, now)]

\* A date of the range is no time: the first statement that takes it
\* throws a RangeError.
reportThrows(filters) == InvalidDate \in {filters.dateFrom, filters.dateTo}

(* ---------------------------- list of entries -------------------------- *)
\* The ids in S ordered by date descending, then by createdAt descending;
\* createdAt grows with the id.
RECURSIVE newestFirst(_)
newestFirst(S) ==
  IF S = {} THEN <<>>
  ELSE LET m == CHOOSE x \in S :
                  \A y \in S :
                     \/ ~dateLeq(entries[x].date, entries[y].date)
                     \/ entries[y].date = entries[x].date /\ y <= x
       IN <<m>> \o newestFirst(S \ {m})

Min(x, y) == IF x <= y THEN x ELSE y

\* filters is [dateFrom, dateTo, employeeId, page, pageSize]: dateFrom and
\* dateTo are Dates or undefined, page is a number or NaN, pageSize an
\* integer.  The rows of the where clause.
listWhere(filters) ==
  {id \in DOMAIN entries :
     /\ IF Truthy(filters.dateFrom) /\ Truthy(filters.dateTo)
        THEN between(entries[id].date, startOfDay(filters.dateFrom),
                     endOfDay(filters.dateTo))
        ELSE IF Truthy(filters.dateFrom)
        THEN dateLeq(startOfDay(filters.dateFrom), entries[id].date)
        ELSE IF Truthy(filters.dateTo)
        THEN dateLeq(entries[id].date, endOfDay(filters.dateTo))
        ELSE TRUE
     /\ Truthy(filters.employeeId) => entries[id].employeeId = filters.employeeId}

\* A date of the filter is no time: the count query throws a RangeError.
countThrows(filters) == InvalidDate \in {filters.dateFrom, filters.dateTo}

\* select count(*)
countEntries(filters) == Cardinality(listWhere(filters))

\* (page - 1) * pageSize
offsetOf(filters) ==
  IF filters.page = NaN THEN NaN ELSE Num((filters.page.a - 1) * filters.pageSize)

\* The offset is negative: the page query is refused.
pageThrows(filters) == offsetOf(filters) # NaN /\ offsetOf(filters).a < 0

\* The page query: the ids of its rows.  An offset that is falsy, 0 or
\* NaN, is not part of the query.
pageEntries(filters) ==
  LET offset == IF Truthy(offsetOf(filters)) THEN offsetOf(filters).a ELSE 0
      ordered == newestFirst(listWhere(filters))
  IN SubSeq(ordered, offset + 1, Min(offset + filters.pageSize, Len(ordered)))

\* The result returned, from what the two queries have answered.
\* currentPage, startIndex and endIndex are numbers or NaN.
listResult(filters, totalEntries, pageOfEntries) ==
  LET offset == offsetOf(filters)
  IN [entries |-> pageOfEntries,
      totalEntries |-> totalEntries,
      totalPages |-> (totalEntries + filters.pageSize - 1) \div filters.pageSize,
      currentPage |-> filters.page,
      pageSize |-> filters.pageSize,
      startIndex |-> IF totalEntries > 0
                     THEN (IF offset = NaN THEN NaN ELSE Num(offset.a + 1))
                     ELSE Num(0),
      endIndex |-> IF offset = NaN THEN NaN
                   ELSE Num(Min(offset.a + filters.pageSize, totalEntries))]

(* ------------------------------ dashboard ------------------------------ *)
\* The ids in S ordered by createdAt descending.
RECURSIVE newestCreatedFirst(_)
newestCreatedFirst(S) ==
  IF S = {} THEN <<>>
  ELSE LET m == CHOOSE x \in S : \A y \in S : y <= x
       IN <<m>> \o newestCreatedFirst(S \ {m})

\* getTimeEntriesByDate answering the entries of the week of the date.
getTimeEntriesByDate_Week(date) ==
  newestCreatedFirst({id \in DOMAIN entries :
                        between(entries[id].date, startOfWeek(date), endOfWeek(date))})

\* The ids of the entries of the day of date.
getTimeEntriesByDate(date) ==
  newestCreatedFirst({id \in DOMAIN entries :
                        between(entries[id].date, startOfDay(date), endOfDay(date))})

\* What getDashboardStats takes from the entries of today.
todayTotals(todayEntries) ==
  [totalHours |-> sumHours(todayEntries, Len(todayEntries)),
   checkedInCount |->
     Cardinality({i \in DOMAIN todayEntries :
                    ~Truthy(entries[todayEntries[i]].checkOutTime)})]

\* The ids of the entries of the week of date, in the order of the table.
weekEntries(date) ==
  inOrder(entryRows,
          {id \in DOMAIN entries :
             between(entries[id].date, startOfDay(startOfWeek(date)),
                     endOfDay(endOfWeek(date)))})

\* The hours of the entries of the week of date.
weeklyTotalHours(date) == sumHours(weekEntries(date), Len(weekEntries(date)))

workDaysInWeek == 5

\* weeklyAvgHours dividing by the number of active employees only.
weeklyAvgHours_PerEmployee(weeklyTotal, active) ==
  IF active > 0 THEN ddiv(weeklyTotal, active) ELSE ZeroD

\* weeklyAvgHours before it is rounded, for active active employees.
weeklyAvgHours(weeklyTotal, active) ==
  IF active > 0 THEN ddiv(weeklyTotal, active * workDaysInWeek) ELSE ZeroD

\* The statistics returned, from what the statements have read: today is
\* todayTotals of the entries of today, active the number of the active
\* employees, weeklyTotal the hours of the week.  The hours are numbers of
\* hundredths, or NaN.
dashboardStats(today, active, weeklyTotal) ==
  LET avgHoursPerEmployee ==
        IF active > 0 THEN ddiv(today.totalHours, active) ELSE ZeroD
  IN [totalHours |-> toFixed2(today.totalHours),
      activeEmployees |-> active,
      checkedInCount |-> today.checkedInCount,
      avgHoursPerEmployee |-> toFixed2(avgHoursPerEmployee),
      weeklyAvgHours |-> toFixed2(weeklyAvgHours(weeklyTotal, active))]

(* ------------------------------ HTTP API ------------------------------- *)
\* res.status(status).json({error}); res.json(body) answers 200 with body;
\* the answer to a request without session is {message}.
respond(status, error) ==
  res' = [status |-> status, error |-> error, message |-> "", body |-> <<>>]
respondJson(body) ==
  res' = [status |-> 200, error |-> "", message |-> "", body |-> body]
notAuthenticated ==
  res' = [status |-> 401, error |-> "", message |-> "Not authenticated", body |-> <<>>]

\* parseISO of a string of the query that is a date or names none: the
\* local time it names (midnight for a date without time), or an invalid
\* Date.
parseISO(v) ==
  CASE v.k = "datestr" -> DateAt(v.a, 0)
    [] v.k = "date" -> v
    [] OTHER -> InvalidDate

\* parseInt of a string of the query that is digits or has none.
parseInt(v) == IF v.k = "digits" THEN Num(v.a) ELSE NaN

\* new Date(v) of a string that is a date or names none: a date without
\* time is midnight UTC, a date and time is local.
parseDate(v) ==
  CASE v.k = "datestr" ->
         DateAt((v.a * 24 * 60 + tz) \div (24 * 60), (v.a * 24 * 60 + tz) % (24 * 60))
    [] v.k = "date" -> v
    [] OTHER -> InvalidDate

\* new Date().toISOString().split("T")[0]: the day of now in UTC.
todayISO(now) == DateStr((now.a * 24 * 60 + now.b - tz) \div (24 * 60))

\* query.date is the date parameter, a string or absent; now is new Date().
\* The date of the dashboard.
dashboardDate(query, now) ==
  parseISO(IF Truthy(query.date) THEN query.date ELSE todayISO(now))

\* The body of the dashboard: the ids of the entries and the statistics.
dashboardJson(entriesOfDate, stats) ==
  [entries |-> entriesOfDate,
   stats |-> [stats EXCEPT !.totalHours = IF @ = NaN THEN Null ELSE @,
                           !.avgHoursPerEmployee = IF @ = NaN THEN Null ELSE @,
                           !.weeklyAvgHours = IF @ = NaN THEN Null ELSE @]]

GetEmployees(auth) ==
  /\ UNCHANGED store
  /\ IF ~auth THEN notAuthenticated
     ELSE respond(200, "")

\* body.valid: employeeSchema.parse accepts the body; body.data is the
\* validated employee.
PostEmployees(auth, body) ==
  IF ~auth
  THEN notAuthenticated /\ UNCHANGED store
  ELSE IF ~body.valid
  THEN respond(400, "ZodError") /\ UNCHANGED store
  ELSE LET r == createEmployee(body.data)
       IN /\ employees' = r.employees
          /\ nextEmployeeId' = r.nextEmployeeId
          /\ employeeRows' = r.rows
          /\ UNCHANGED entryTable
          /\ IF r.ret = "throw"
             THEN respond(500, "Failed to create employee")
             ELSE respond(201, "")

GetEmployee(auth, id) ==
  /\ UNCHANGED store
  /\ IF ~auth THEN notAuthenticated
     ELSE IF id \notin DOMAIN employees
     THEN respond(404, "Employee not found")
     ELSE respond(200, "")

\* body.valid: employeeSchema.partial().parse accepts the body; body.data is
\* the validated partial employee.
PatchEmployee(auth, id, body) ==
  IF ~auth
  THEN notAuthenticated /\ UNCHANGED store
  ELSE IF ~body.valid
  THEN respond(400, "ZodError") /\ UNCHANGED store
  ELSE LET r == updateEmployee(id, body.data)
       IN /\ employees' = r.employees
          /\ employeeRows' = r.rows
          /\ UNCHANGED <<nextEmployeeId, entryTable>>
          /\ CASE r.ret = "throw" -> respond(500, "Failed to update employee")
               [] r.ret = "undefined" -> respond(404, "Employee not found")
               [] OTHER -> respond(200, "")

DeactivateEmployee(auth, id) ==
  IF ~auth
  THEN /\ notAuthenticated
       /\ UNCHANGED store
  ELSE LET r == updateEmployee(id, [status |-> "inactive"])
       IN /\ employees' = r.employees
          /\ employeeRows' = r.rows
          /\ UNCHANGED <<nextEmployeeId, entryTable>>
          /\ CASE r.ret = "throw" -> respond(500, "Failed to deactivate employee")
               [] r.ret = "undefined" -> respond(404, "Employee not found")
               [] OTHER -> respond(200, "")

\* query is [dateFrom, dateTo, employeeId, page], each a string or absent;
\* a string is truthy unless empty.
listFilters(query) ==
  [dateFrom |-> IF Truthy(query.dateFrom) THEN parseISO(query.dateFrom)
                ELSE Undefined,
   dateTo |-> IF Truthy(query.dateTo) THEN parseISO(query.dateTo)
              ELSE Undefined,
   employeeId |-> IF Truthy(query.employeeId) /\ query.employeeId # AllEmployees
                  THEN parseInt(query.employeeId)
                  ELSE Undefined,
   page |-> IF Truthy(query.page) THEN parseInt(query.page) ELSE Num(1),
   pageSize |-> 10]

\* The body of the list: its numbers as JSON writes them, null for NaN.
listJson(result) ==
  [result EXCEPT !.currentPage = IF @ = NaN THEN Null ELSE @,
                 !.startIndex = IF @ = NaN THEN Null ELSE @,
                 !.endIndex = IF @ = NaN THEN Null ELSE @]

\* The checks of the date of a new entry: the error answered, "" when none.
postDateError(data) ==
  IF ~IsString(data.date) THEN "Invalid date format"
  ELSE IF parseDate(data.date) = InvalidDate THEN "Invalid date"
  ELSE IF isWeekend(parseDate(data.date).a) THEN "Cannot add time entries for weekends"
  ELSE ""

postProcessedData(data) ==
  [employeeId |-> ToNumber(data.employeeId),
   date |-> parseDate(data.date),
   checkInTime |-> data.checkInTime,
   checkOutTime |-> Or(data.checkOutTime, Undefined),
   breakMinutes |-> Or(ToNumber(data.breakMinutes), Num(0))]

PostTimeEntries(auth, data) ==
  IF ~auth
  THEN notAuthenticated /\ UNCHANGED store
  ELSE IF postDateError(data) # ""
  THEN respond(400, postDateError(data)) /\ UNCHANGED store
  ELSE LET r == createTimeEntry(postProcessedData(data))
       IN /\ entries' = r.entries
          /\ nextEntryId' = r.nextEntryId
          /\ entryRows' = r.rows
          /\ UNCHANGED employeeTable
          /\ IF r.ret = "throw"
             THEN respond(500, r.message)
             ELSE respond(201, "")

GetTimeEntry(auth, id) ==
  /\ UNCHANGED store
  /\ IF ~auth THEN notAuthenticated
     ELSE IF getTimeEntryById(id) = Undefined
     THEN respond(404, "Time entry not found")
     ELSE respondJson(getTimeEntryById(id))

\* The checks of the date of an update: the error answered, "" when none.
patchDateError(data) ==
  IF data.date = Undefined THEN ""
  ELSE IF ~IsString(data.date) THEN "Invalid date format"
  ELSE IF parseDate(data.date) = InvalidDate THEN "Invalid date"
  ELSE IF isWeekend(parseDate(data.date).a) THEN "Cannot update time entries to weekends"
  ELSE ""

\* patchProcessedData passing checkOutTime on as it was sent.
patchProcessedData_RawCheckOut(data) ==
  [employeeId |-> IF data.employeeId # Undefined
                  THEN ToNumber(data.employeeId) ELSE Undefined,
   breakMinutes |-> IF data.breakMinutes # Undefined
                    THEN ToNumber(data.breakMinutes) ELSE Undefined,
   checkInTime |-> data.checkInTime,
   checkOutTime |-> data.checkOutTime,
   date |-> IF data.date # Undefined THEN parseDate(data.date) ELSE Undefined]

patchProcessedData(data) ==
  [employeeId |-> IF data.employeeId # Undefined
                  THEN ToNumber(data.employeeId) ELSE Undefined,
   breakMinutes |-> IF data.breakMinutes # Undefined
                    THEN ToNumber(data.breakMinutes) ELSE Undefined,
   checkInTime |-> data.checkInTime,
   checkOutTime |-> IF data.checkOutTime # Undefined
                    THEN Or(data.checkOutTime, Undefined) ELSE Undefined,
   date |-> IF data.date # Undefined THEN parseDate(data.date) ELSE Undefined]

\* DeleteTimeEntry without the authentication check.
DeleteTimeEntry_NoAuth(auth, id) ==
  /\ entries' = deleteTimeEntry(id).entries
  /\ entryRows' = deleteTimeEntry(id).rows
  /\ UNCHANGED <<employeeTable, nextEntryId>>
  /\ respond(204, "")

DeleteTimeEntry(auth, id) ==
  IF ~auth
  THEN notAuthenticated /\ UNCHANGED store
  ELSE /\ entries' = deleteTimeEntry(id).entries
       /\ entryRows' = deleteTimeEntry(id).rows
       /\ UNCHANGED <<employeeTable, nextEntryId>>
       /\ respond(204, "")

\* query is [reportType, dateFrom, dateTo, employeeId], each a string of the
\* query ("" for reportType) or absent; a string is truthy unless empty.
reportFilters(query) ==
  [reportType |-> IF query.reportType = "" THEN "weekly" ELSE query.reportType,
   dateFrom |-> IF Truthy(query.dateFrom)
                THEN parseISO(query.dateFrom) ELSE Undefined,
   dateTo |-> IF Truthy(query.dateTo)
              THEN parseISO(query.dateTo) ELSE Undefined,
   employeeId |-> IF Truthy(query.employeeId) /\ query.employeeId # AllEmployees
                  THEN parseInt(query.employeeId)
                  ELSE Undefined]

\* The body of a report: its numbers as JSON writes them.
reportJson(report) ==
  [report EXCEPT
     !.chartData = [i \in DOMAIN @ |->
                      [@[i] EXCEPT !.values = [e \in DOMAIN @ |-> jsonNumber(@[e])]]],
     !.summaryData = [i \in DOMAIN @ |->
                        [@[i] EXCEPT !.totalHours = jsonNumber(@),
                                     !.avgDailyHours = jsonNumber(@)]],
     !.employeeTotals = [@ EXCEPT !.totalHours = jsonNumber(@),
                                  !.avgDailyHours = jsonNumber(@)]]

(* ---------------------------- requests sent ---------------------------- *)
\* A request whose handler runs one statement is received and its handler
\* runs to the response; then the response is delivered to the client.
\* req is the request being answered: id is 0 where it addresses no
\* record, body is <<>> where it has none or where no property reads it.
NoRequest == [op |-> "", auth |-> FALSE, id |-> 0, body |-> <<>>]
NoResponse == [status |-> 0, error |-> "", message |-> "", body |-> <<>>]

\* The requests handled while a call is in progress are counted in the
\* call, and are at most MaxOvertaking.
MaxOvertaking == 1
overtakes ==
  /\ \A i \in DOMAIN calls : calls[i].overtaken < MaxOvertaking
  /\ calls' = [i \in DOMAIN calls |-> [calls[i] EXCEPT !.overtaken = @ + 1]]

receive(op, auth, id, body) ==
  /\ req = NoRequest
  /\ req' = [op |-> op, auth |-> auth, id |-> id, body |-> body]
  /\ overtakes
  /\ UNCHANGED tz

\* The response is delivered; the call that has answered it is over.
Deliver ==
  /\ req # NoRequest
  /\ req' = NoRequest
  /\ res' = NoResponse
  /\ calls' = SelectSeq(calls, LAMBDA c : c.pc # "responded")
  /\ UNCHANGED <<store, tz>>


(* --------------------- handlers, statement by statement ---------------- *)
\* The handlers of the dashboard, the list and the reports read the tables
\* with several statements, the handlers that update and check out a time
\* entry read it before they write it, and the statements of other requests
\* run between them.  A request that is answered before its first statement is
\* answered at once; otherwise it is a call of calls: pc is the statement
\* it is at, and what its statements have read is kept in it.  Its last
\* statement answers the request.  The statements that read the names of
\* the employees of the entries are left out where no statement follows
\* them.
\* A call also records, for the properties, the tables as its statements
\* found them: deleted is the set of the ids of the entries deleted before
\* the request, read the set of the ids of the entries its statements have
\* read, and the fields named ...Read are the entries or the employees at
\* the moment of a statement, <<>> before it.
\* req and res hold the request answered last until it is delivered, which
\* changes no table: a statement runs once the response before it is
\* delivered, and no order of the statements and the writes is lost.
MaxQueries == 1

DeletedEntries == (1..(nextEntryId - 1)) \ DOMAIN entries

\* The elements of the sequence s.
Ids(s) == {s[i] : i \in DOMAIN s}

\* The call i answers its request with the response r.
answers(i, r) ==
  /\ req' = [op |-> calls[i].op, auth |-> TRUE, id |-> 0, body |-> calls[i].query]
  /\ res' = r

(* --------------- updateTimeEntry and checkoutTimeEntry ----------------- *)
\* A call of updateTimeEntry or of checkoutTimeEntry is made by the request
\* op, with the body of the request, or under SpecConcurrent on its own, op
\* being the name of the function.  id is the entry and data the data of
\* updateTimeEntry; pc is the statement the call is at, currentEntry what
\* updateTimeEntry has read, ret what the call has returned.  closed
\* records, for the properties, that the entry had a check-out time when
\* the call was made.  At most MaxCalls of these calls are in progress.
\* The statements of a call are its awaits that read or write an entry: the
\* read of checkoutTimeEntry (line 802), the read of updateTimeEntry (line
\* 746) and its update statement (line 780).  The reads of the name of the
\* employee (lines 737 and 788) read no entry and write nothing, and the
\* name is not part of the model: they are no steps of their own.
MaxCalls == 2

NoData ==
  [employeeId |-> Undefined, date |-> Undefined, checkInTime |-> Undefined,
   checkOutTime |-> Undefined, breakMinutes |-> Undefined]

TimeEntryRequests ==
  {"PATCH /api/time-entries/:id", "POST /api/time-entries/:id/checkout"}

timeEntryCall(op, id, body, data, pc) ==
  [op |-> op, id |-> id, body |-> body, data |-> data, pc |-> pc,
   currentEntry |-> Undefined, ret |-> "", overtaken |-> 0,
   closed |-> id \in DOMAIN entries /\ entries[id].checkOutTime # Null]

\* The statements of the call of a request run between the requests, as
\* those of the dashboard do.
inTurn(i) == calls[i].op \in TimeEntryRequests => req = NoRequest

\* What the handler of the request of call i answers when the call returns
\* ret, or throws message.
timeEntryResponse(i, ret, message) ==
  CASE ret = "throw" ->
         [status |-> 500,
          error |-> IF calls[i].op = "PATCH /api/time-entries/:id"
                    THEN message ELSE "Failed to checkout time entry",
          message |-> "", body |-> <<>>]
    [] ret = "undefined" ->
         [status |-> 404, error |-> "Time entry not found", message |-> "",
          body |-> <<>>]
    [] OTHER -> [status |-> 200, error |-> "", message |-> "", body |-> <<>>]

\* The call i returns ret or throws message: the call of a request answers
\* the request.
returns(i, ret, message) ==
  IF calls[i].op \in TimeEntryRequests
  THEN /\ req' = [op |-> calls[i].op, auth |-> TRUE, id |-> calls[i].id,
                  body |-> calls[i].body]
       /\ res' = timeEntryResponse(i, ret, message)
       /\ calls' = [calls EXCEPT ![i].pc = "responded", ![i].ret = ret]
  ELSE /\ calls' = [calls EXCEPT ![i].pc = "done", ![i].ret = ret]
       /\ UNCHANGED <<req, res>>

\* PATCH /api/time-entries/:id is received: a request without session or
\* with a date that is refused is answered, another calls updateTimeEntry.
PatchBegins(auth, id, data) ==
  /\ req = NoRequest
  /\ UNCHANGED <<store, tz>>
  /\ IF ~auth \/ patchDateError(data) # ""
     THEN /\ req' = [op |-> "PATCH /api/time-entries/:id", auth |-> auth,
                     id |-> id, body |-> data]
          /\ IF ~auth THEN notAuthenticated
             ELSE respond(400, patchDateError(data))
          /\ UNCHANGED calls
     ELSE /\ Len(calls) < MaxCalls
          /\ \A i \in DOMAIN calls : calls[i].overtaken < MaxOvertaking
          /\ calls' = Append([i \in DOMAIN calls |->
                                [calls[i] EXCEPT !.overtaken = @ + 1]],
                             timeEntryCall("PATCH /api/time-entries/:id", id, data,
                                           patchProcessedData(data),
                                           "getTimeEntryById"))
          /\ UNCHANGED <<req, res>>

\* POST /api/time-entries/:id/checkout is received: a request without
\* session is answered, another calls checkoutTimeEntry.  now is the time,
\* hours and minutes, that the call reads from the clock of the server
\* after its first statement (line 806): no step depends on the clock, so
\* the time is drawn when the call begins.
CheckoutBegins(auth, id, now) ==
  /\ req = NoRequest
  /\ UNCHANGED <<store, tz>>
  /\ IF ~auth
     THEN /\ req' = [op |-> "POST /api/time-entries/:id/checkout", auth |-> auth,
                     id |-> id, body |-> <<>>]
          /\ notAuthenticated
          /\ UNCHANGED calls
     ELSE /\ Len(calls) < MaxCalls
          /\ \A i \in DOMAIN calls : calls[i].overtaken < MaxOvertaking
          /\ calls' = Append([i \in DOMAIN calls |->
                                [calls[i] EXCEPT !.overtaken = @ + 1]],
                             timeEntryCall("POST /api/time-entries/:id/checkout", id,
                                           <<>>,
                                           [NoData EXCEPT
                                              !.checkOutTime = T24(now[1], now[2])],
                                           "entry"))
          /\ UNCHANGED <<req, res>>

\* updateTimeEntry(id, data) is called.
CallUpdateTimeEntry(id, data) ==
  /\ Len(calls) < MaxCalls
  /\ calls' = Append(calls, timeEntryCall("updateTimeEntry", id, <<>>, data,
                                          "getTimeEntryById"))
  /\ UNCHANGED <<store, req, res, tz>>

\* checkoutTimeEntry(id) is called; now is the time it will read from the
\* clock.
CallCheckoutTimeEntry(id, now) ==
  /\ Len(calls) < MaxCalls
  /\ calls' = Append(calls,
                     timeEntryCall("checkoutTimeEntry", id, <<>>,
                                   [NoData EXCEPT !.checkOutTime = T24(now[1], now[2])],
                                   "entry"))
  /\ UNCHANGED <<store, req, res, tz>>

\* CheckoutReadsEntry without the test of entry.checkOutTime.
CheckoutReadsEntry_NoClosedGuard(i) ==
  /\ calls[i].pc = "entry"
  /\ inTurn(i)
  /\ IF getTimeEntryById(calls[i].id) = Undefined
     THEN returns(i, "undefined", "")
     ELSE /\ calls' = [calls EXCEPT ![i].pc = "getTimeEntryById"]
          /\ UNCHANGED <<req, res>>
  /\ UNCHANGED <<store, tz>>

\* checkoutTimeEntry reads the entry and returns when there is none or it
\* has a check-out time; otherwise it calls updateTimeEntry.
CheckoutReadsEntry(i) ==
  /\ calls[i].pc = "entry"
  /\ inTurn(i)
  /\ LET entry == getTimeEntryById(calls[i].id)
     IN IF entry = Undefined \/ Truthy(entry.checkOutTime)
        THEN returns(i, "undefined", "")
        ELSE /\ calls' = [calls EXCEPT ![i].pc = "getTimeEntryById"]
             /\ UNCHANGED <<req, res>>
  /\ UNCHANGED <<store, tz>>

\* updateTimeEntry reads the current entry and returns when there is none.
UpdateReadsEntry(i) ==
  /\ calls[i].pc = "getTimeEntryById"
  /\ inTurn(i)
  /\ LET currentEntry == getTimeEntryById(calls[i].id)
     IN IF currentEntry = Undefined
        THEN returns(i, "undefined", "")
        ELSE /\ calls' = [calls EXCEPT ![i].pc = "update",
                                       ![i].currentEntry = currentEntry]
             /\ UNCHANGED <<req, res>>
  /\ UNCHANGED <<store, tz>>

\* updateTimeEntry runs its update statement with the data it prepared
\* from the entry it has read, and returns.
UpdateWrites(i) ==
  /\ calls[i].pc = "update"
  /\ inTurn(i)
  /\ LET r == dbUpdate(calls[i].id,
                       updateDataOf(calls[i].data, calls[i].currentEntry))
     IN /\ entries' = r.entries
        /\ entryRows' = r.rows
        /\ returns(i, r.ret, r.message)
  /\ UNCHANGED <<employeeTable, nextEntryId, tz>>

TimeEntrySteps ==
  \/ \E i \in DOMAIN calls : CheckoutReadsEntry(i)
  \/ \E i \in DOMAIN calls : UpdateReadsEntry(i)
  \/ \E i \in DOMAIN calls : UpdateWrites(i)

(* ------------------ the dashboard, the list, the reports --------------- *)
\* GET /api/dashboard is received and getTimeEntriesByDate reads the
\* entries of the date.
DashboardBegins(auth, query, now) ==
  /\ req = NoRequest
  /\ UNCHANGED <<store, tz>>
  /\ IF ~auth \/ dashboardDate(query, now) = InvalidDate
     THEN /\ req' = [op |-> "GET /api/dashboard", auth |-> auth, id |-> 0,
                     body |-> query]
          /\ IF ~auth THEN notAuthenticated
             ELSE respond(500, "Failed to fetch dashboard data")
          /\ UNCHANGED calls
     ELSE /\ Len(calls) < MaxQueries
          /\ calls' = Append(calls,
               [op |-> "GET /api/dashboard", query |-> query,
                pc |-> "todayEntries", overtaken |-> 0,
                deleted |-> DeletedEntries,
                date |-> dashboardDate(query, now),
                entries |-> getTimeEntriesByDate(dashboardDate(query, now)),
                today |-> todayTotals(<<>>), active |-> 0,
                read |-> Ids(getTimeEntriesByDate(dashboardDate(query, now))),
                todayRead |-> <<>>, employeesRead |-> <<>>, weekRead |-> <<>>])
          /\ UNCHANGED <<req, res>>

\* getDashboardStats reads the entries of the date.
DashboardReadsToday(i) ==
  /\ req = NoRequest
  /\ calls[i].op = "GET /api/dashboard" /\ calls[i].pc = "todayEntries"
  /\ calls' = [calls EXCEPT
                 ![i].today = todayTotals(getTimeEntriesByDate(calls[i].date)),
                 ![i].read = @ \cup Ids(getTimeEntriesByDate(calls[i].date)),
                 ![i].todayRead = entries,
                 ![i].pc = "activeEmployees"]
  /\ UNCHANGED <<store, req, res, tz>>

\* getDashboardStats reads the active employees.
DashboardReadsEmployees(i) ==
  /\ req = NoRequest
  /\ calls[i].op = "GET /api/dashboard" /\ calls[i].pc = "activeEmployees"
  /\ calls' = [calls EXCEPT ![i].active = Len(activeEmployees),
                            ![i].employeesRead = employees,
                            ![i].pc = "weekEntries"]
  /\ UNCHANGED <<store, req, res, tz>>

\* getDashboardStats reads the entries of the week, and the dashboard is
\* answered.
DashboardReadsWeek(i) ==
  /\ req = NoRequest
  /\ calls[i].op = "GET /api/dashboard" /\ calls[i].pc = "weekEntries"
  /\ answers(i, [status |-> 200, error |-> "", message |-> "",
                 body |-> dashboardJson(calls[i].entries,
                            dashboardStats(calls[i].today, calls[i].active,
                                           weeklyTotalHours(calls[i].date)))])
  /\ calls' = [calls EXCEPT ![i].read = @ \cup Ids(weekEntries(calls[i].date)),
                            ![i].weekRead = entries,
                            ![i].pc = "responded"]
  /\ UNCHANGED <<store, tz>>

\* getTimeEntries(filters) is called for the request query, and counts the
\* entries.
listCall(op, query, filters) ==
  [op |-> op, query |-> query, filters |-> filters,
   pc |-> "entries", overtaken |-> 0, deleted |-> DeletedEntries,
   totalEntries |-> countEntries(filters), entries |-> <<>>,
   countRead |-> entries, pageRead |-> <<>>]

\* GET /api/time-entries is received and getTimeEntries counts the entries.
ListBegins(auth, query) ==
  /\ req = NoRequest
  /\ UNCHANGED <<store, tz>>
  /\ IF ~auth \/ countThrows(listFilters(query))
     THEN /\ req' = [op |-> "GET /api/time-entries", auth |-> auth, id |-> 0,
                     body |-> query]
          /\ IF ~auth THEN notAuthenticated
             ELSE respond(500, "Failed to fetch time entries")
          /\ UNCHANGED calls
     ELSE /\ Len(calls) < MaxQueries
          /\ calls' = Append(calls, listCall("GET /api/time-entries", query,
                                             listFilters(query)))
          /\ UNCHANGED <<req, res>>

\* What the call i answers with the result of getTimeEntries: the handler
\* of the request writes it as JSON.
listAnswer(i, result) ==
  [status |-> 200, error |-> "", message |-> "",
   body |-> IF calls[i].op = "GET /api/time-entries" THEN listJson(result)
            ELSE result]

\* getTimeEntries reads the page.  A page that is refused is answered at
\* once and so is a page without entries; of the entries of another the
\* names of the employees are read next.
ListReadsPage(i) ==
  /\ req = NoRequest
  /\ calls[i].op \in {"GET /api/time-entries", "getTimeEntries"}
  /\ calls[i].pc = "entries"
  /\ UNCHANGED <<store, tz>>
  /\ LET filters == calls[i].filters
     IN IF pageThrows(filters)
        THEN /\ answers(i, [status |-> 500, error |-> "Failed to fetch time entries",
                            message |-> "", body |-> <<>>])
             /\ calls' = [calls EXCEPT ![i].pc = "responded"]
        ELSE IF pageEntries(filters) = <<>>
        THEN /\ answers(i, listAnswer(i, listResult(filters, calls[i].totalEntries,
                                                    <<>>)))
             /\ calls' = [calls EXCEPT ![i].pageRead = entries,
                                       ![i].pc = "responded"]
        ELSE /\ calls' = [calls EXCEPT ![i].entries = pageEntries(filters),
                                       ![i].pageRead = entries,
                                       ![i].pc = "employeeNames"]
             /\ UNCHANGED <<req, res>>

\* The names of the employees are read, and the list is answered.
ListResponds(i) ==
  /\ req = NoRequest
  /\ calls[i].op \in {"GET /api/time-entries", "getTimeEntries"}
  /\ calls[i].pc = "employeeNames"
  /\ answers(i, listAnswer(i, listResult(calls[i].filters, calls[i].totalEntries,
                                         calls[i].entries)))
  /\ calls' = [calls EXCEPT ![i].pc = "responded"]
  /\ UNCHANGED <<store, tz>>

\* GET /api/reports is received and generateReport reads the active
\* employees.
ReportBegins(auth, query, now) ==
  /\ req = NoRequest
  /\ UNCHANGED <<store, tz>>
  /\ IF ~auth
     THEN /\ req' = [op |-> "GET /api/reports", auth |-> auth, id |-> 0,
                     body |-> query]
          /\ notAuthenticated
          /\ UNCHANGED calls
     ELSE /\ Len(calls) < MaxQueries
          /\ calls' = Append(calls,
               [op |-> "GET /api/reports", query |-> query,
                pc |-> "chartData", overtaken |-> 0,
                deleted |-> DeletedEntries,
                now |-> now, allEmployees |-> activeEmployees,
                chartData |-> <<>>, toReport |-> <<>>, summaryData |-> <<>>,
                read |-> {},
                chartRead |-> <<>>, employeesRead |-> <<>>, entriesRead |-> <<>>])
          /\ UNCHANGED <<req, res>>

\* The entries of the chart are read; with a date that is no time the
\* statement throws and the request is answered.
ReportReadsChart(i) ==
  /\ req = NoRequest
  /\ calls[i].op = "GET /api/reports" /\ calls[i].pc = "chartData"
  /\ UNCHANGED <<store, tz>>
  /\ IF reportThrows(reportFilters(calls[i].query))
     THEN /\ answers(i, [status |-> 500, error |-> "Failed to generate report",
                         message |-> "", body |-> <<>>])
          /\ calls' = [calls EXCEPT ![i].pc = "responded"]
     ELSE /\ calls' = [calls EXCEPT
                         ![i].chartData =
                            chartDataOf(reportFilters(calls[i].query), calls[i].now),
                         ![i].chartRead = entries,
                         ![i].pc = "employeesToReport"]
          /\ UNCHANGED <<req, res>>

\* getEmployeeSummaryData reads the employees to report on.
ReportReadsEmployees(i) ==
  /\ req = NoRequest
  /\ calls[i].op = "GET /api/reports" /\ calls[i].pc = "employeesToReport"
  /\ calls' = [calls EXCEPT
                 ![i].toReport =
                    employeesToReport(reportFilters(calls[i].query).employeeId),
                 ![i].employeesRead = employees,
                 ![i].pc = "summaryData"]
  /\ UNCHANGED <<store, req, res, tz>>

\* getEmployeeSummaryData reads the entries of the next employee.
ReportReadsEntries(i) ==
  /\ req = NoRequest
  /\ calls[i].op = "GET /api/reports" /\ calls[i].pc = "summaryData"
  /\ calls[i].toReport # <<>>
  /\ LET range == reportRange(reportFilters(calls[i].query), calls[i].now)
         employee == Head(calls[i].toReport)
     IN calls' = [calls EXCEPT
                    ![i].toReport = Tail(@),
                    ![i].summaryData =
                       @ \o summaryRows(<<employee>>, range.from, range.to),
                    ![i].entriesRead = @ @@ (employee :> entries),
                    ![i].read =
                       @ \cup {id \in DOMAIN entries :
                                 /\ entries[id].employeeId = Num(employee)
                                 /\ between(entries[id].date, startOfDay(range.from),
                                            endOfDay(range.to))}]
  /\ UNCHANGED <<store, req, res, tz>>

\* The employees are all read: the report is answered.
ReportResponds(i) ==
  /\ req = NoRequest
  /\ calls[i].op = "GET /api/reports" /\ calls[i].pc = "summaryData"
  /\ calls[i].toReport = <<>>
  /\ answers(i, [status |-> 200, error |-> "", message |-> "",
                 body |-> reportJson(reportOf(reportFilters(calls[i].query),
                                              calls[i].now, calls[i].allEmployees,
                                              calls[i].chartData,
                                              calls[i].summaryData))])
  /\ calls' = [calls EXCEPT ![i].pc = "responded"]
  /\ UNCHANGED <<store, tz>>

\* The steps of the calls that are in progress: of the dashboard, of the
\* list and of the reports.
DashboardSteps ==
  \/ \E i \in DOMAIN calls : DashboardReadsToday(i)
  \/ \E i \in DOMAIN calls : DashboardReadsEmployees(i)
  \/ \E i \in DOMAIN calls : DashboardReadsWeek(i)
ListSteps ==
  \/ \E i \in DOMAIN calls : ListReadsPage(i)
  \/ \E i \in DOMAIN calls : ListResponds(i)
ReportSteps ==
  \/ \E i \in DOMAIN calls : ReportReadsChart(i)
  \/ \E i \in DOMAIN calls : ReportReadsEmployees(i)
  \/ \E i \in DOMAIN calls : ReportReadsEntries(i)
  \/ \E i \in DOMAIN calls : ReportResponds(i)
\* An unauthenticated request is answered before its body is read.
Callers(bodies) ==
  {[auth |-> TRUE, body |-> b] : b \in bodies}
  \cup {[auth |-> FALSE, body |-> CHOOSE b \in bodies : TRUE]}

\* Sample data: a morning and a late-afternoon time of day; a Saturday, the
\* Sunday and the Monday after it.
SampleTimes == {T24(9, 0), T24(17, 10)}
ClockTimes == {<<9, 0>>, <<17, 10>>}
Days == {5, 6, 7}
EmployeeIds == 1..MaxEmployees

\* The time zones of the server: UTC, and eight hours behind it.
TimeZones == {0, -8 * 60}

\* The moment of the requests that read the clock: the Wednesday after
\* the Monday of Days, at 17:10 of the server.  A list and a report asked
\* for without parameters.
Now == DateAt(9, 17 * 60 + 10)
NoListQuery == [dateFrom |-> Undefined, dateTo |-> Undefined,
                employeeId |-> Undefined, page |-> Undefined]
NoQuery == [reportType |-> "", dateFrom |-> Undefined, dateTo |-> Undefined,
            employeeId |-> Undefined]

\* The addresses of the employees.
Emails == <<"a@example.com", "b@example.com", "c@example.com", "d@example.com">>

\* New employees with an address each, without an id or with one of their
\* own, and a body that is refused.
EmployeeBodies ==
  {[valid |-> TRUE,
    data |-> [email |-> Emails[i], position |-> "Engineer", status |-> "inactive"]] :
     i \in EmployeeIds}
  \cup {[valid |-> TRUE,
          data |-> [id |-> MaxEmployees, email |-> Emails[MaxEmployees + 1],
                    position |-> "Engineer"]],
         [valid |-> FALSE, data |-> <<>>]}
EmployeePatches ==
  {[valid |-> FALSE, data |-> <<>>], [valid |-> TRUE, data |-> <<>>],
   [valid |-> TRUE, data |-> [position |-> "Manager"]],
   [valid |-> TRUE, data |-> [email |-> Emails[1]]],
   [valid |-> TRUE, data |-> [id |-> MaxEmployees]],
   [valid |-> TRUE, data |-> [id |-> MaxEmployees + 1]]}
  \cup {[valid |-> TRUE, data |-> [status |-> s]] :
          s \in {"active", "inactive", "on-leave"}}

\* The new employees without an id of their own.
ApiEmployeeBodies == {b \in EmployeeBodies : "id" \notin DOMAIN b.data}

\* The patches that leave the position of the employee as it is and set no
\* status but active and inactive.
ApiEmployeePatches ==
  {p \in EmployeePatches :
     /\ DOMAIN p.data \cap {"position", "email", "id"} = {}
     /\ "status" \in DOMAIN p.data => p.data.status \in {"active", "inactive"}}

EmployeeCallers == Callers(EmployeeBodies)
ApiEmployeeCallers == Callers(ApiEmployeeBodies)
EmployeePatchCallers == Callers(EmployeePatches)
ApiEmployeePatchCallers == Callers(ApiEmployeePatches)

Init ==
  /\ employees = <<>>
  /\ nextEmployeeId = 1
  /\ employeeRows = <<>>
  /\ entries = <<>>
  /\ nextEntryId = 1
  /\ entryRows = <<>>
  /\ req = NoRequest
  /\ res = NoResponse
  /\ calls = <<>>
  /\ tz \in TimeZones

(* Spec: every endpoint of the API, on entries of one check-in time and on  *)
(* employees that keep their position.  The dashboard, the list, the       *)
(* reports, the updates and the checkouts of time entries run statement by *)
(* statement.                                                              *)
ApiTimeEntryBodies ==
  [employeeId : {Undefined} \cup {Num(i) : i \in EmployeeIds},
   date : {Garbage, DateStr(5), DateStr(7)},
   checkInTime : {T24(9, 0)},
   checkOutTime : {Undefined, T24(17, 10)},
   breakMinutes : {Undefined}]

ApiTimeEntryPatches ==
  {NoData,
   [NoData EXCEPT !.date = DateStr(6)],
   [NoData EXCEPT !.checkOutTime = T24(17, 10)]}

ApiEntryIds == 1..(MaxEntries + 1)

\* The dashboard of today and of a date that is none; the first page of
\* the list, the page 0, a page and a date that are none; the report of the
\* last week and of a date that is none.
ApiDashboardQueries == {[date |-> Undefined], [date |-> Garbage]}
ApiListQueries ==
  {NoListQuery, [NoListQuery EXCEPT !.page = Digits(0)],
   [NoListQuery EXCEPT !.page = Garbage], [NoListQuery EXCEPT !.dateTo = Garbage]}
ApiReportQueries == {NoQuery, [NoQuery EXCEPT !.dateFrom = Garbage]}
ApiTimeEntryCallers == Callers(ApiTimeEntryBodies)
ApiTimeEntryPatchCallers == Callers(ApiTimeEntryPatches)

\* The requests of the API: employeePatchCallers are the senders of the
\* employee updates, lastEntryId is the last time entry that is created.
ApiNext(employeeCallers, employeePatchCallers, lastEntryId) ==
  \/ \E c \in Callers(ApiDashboardQueries) : DashboardBegins(c.auth, c.body, Now)
  \/ DashboardSteps
  \/ \E auth \in BOOLEAN :
        receive("GET /api/employees", auth, 0, <<>>) /\ GetEmployees(auth)
  \/ \E c \in employeeCallers :
        /\ receive("POST /api/employees", c.auth, 0, c.body)
        /\ PostEmployees(c.auth, c.body)
        /\ nextEmployeeId' <= MaxEmployees + 1
  \/ \E auth \in BOOLEAN, id \in EmployeeIds :
        receive("GET /api/employees/:id", auth, id, <<>>) /\ GetEmployee(auth, id)
  \/ \E c \in employeePatchCallers, id \in EmployeeIds :
        /\ receive("PATCH /api/employees/:id", c.auth, id, c.body)
        /\ PatchEmployee(c.auth, id, c.body)
  \/ \E auth \in BOOLEAN, id \in EmployeeIds :
        /\ receive("PATCH /api/employees/:id/deactivate", auth, id, <<>>)
        /\ DeactivateEmployee(auth, id)
  \/ \E c \in Callers(ApiListQueries) : ListBegins(c.auth, c.body)
  \/ ListSteps
  \/ \E c \in ApiTimeEntryCallers :
        /\ receive("POST /api/time-entries", c.auth, 0, <<>>)
        /\ PostTimeEntries(c.auth, c.body)
        /\ nextEntryId' <= lastEntryId + 1
  \/ \E auth \in BOOLEAN, id \in ApiEntryIds :
        receive("GET /api/time-entries/:id", auth, id, <<>>) /\ GetTimeEntry(auth, id)
  \/ \E c \in ApiTimeEntryPatchCallers, id \in ApiEntryIds :
        PatchBegins(c.auth, id, c.body)
  \/ \E auth \in BOOLEAN, id \in ApiEntryIds :
        /\ receive("DELETE /api/time-entries/:id", auth, id, <<>>)
        /\ DeleteTimeEntry(auth, id)
  \/ \E auth \in BOOLEAN, id \in ApiEntryIds, now \in {<<17, 10>>} :
        CheckoutBegins(auth, id, now)
  \/ TimeEntrySteps
  \/ \E c \in Callers(ApiReportQueries) : ReportBegins(c.auth, c.body, Now)
  \/ ReportSteps
  \/ Deliver

Next == ApiNext(ApiEmployeeCallers, ApiEmployeePatchCallers, MaxEntries)

Spec == Init /\ [][Next]_vars

(* SpecEmployees: the endpoints of the employees, on employees that       *)
(* change position, address and id, and on one time entry of an employee.  *)
EmployeeEntryBodies ==
  {[employeeId |-> Num(e), date |-> DateAt(7, 0), checkInTime |-> T24(9, 0),
    checkOutTime |-> Undefined, breakMinutes |-> Undefined] : e \in EmployeeIds}

NextEmployees ==
  \/ \E auth \in BOOLEAN :
        receive("GET /api/employees", auth, 0, <<>>) /\ GetEmployees(auth)
  \/ \E c \in EmployeeCallers :
        /\ receive("POST /api/employees", c.auth, 0, c.body)
        /\ PostEmployees(c.auth, c.body)
        /\ nextEmployeeId' <= MaxEmployees + 1
  \/ \E auth \in BOOLEAN, id \in EmployeeIds :
        receive("GET /api/employees/:id", auth, id, <<>>) /\ GetEmployee(auth, id)
  \/ \E c \in EmployeePatchCallers, id \in EmployeeIds :
        /\ receive("PATCH /api/employees/:id", c.auth, id, c.body)
        /\ PatchEmployee(c.auth, id, c.body)
  \/ \E auth \in BOOLEAN, id \in EmployeeIds :
        /\ receive("PATCH /api/employees/:id/deactivate", auth, id, <<>>)
        /\ DeactivateEmployee(auth, id)
  \/ \E data \in EmployeeEntryBodies :
        /\ receive("POST /api/time-entries", TRUE, 0, <<>>)
        /\ PostTimeEntries(TRUE, data)
        /\ nextEntryId' <= MaxLifecycleEntries + 1
  \/ Deliver

SpecEmployees == Init /\ [][NextEmployees]_vars

(* SpecEntries: the life of the time entries of one employee: an entry of   *)
(* a Monday with its fields as they should be, open or closed, with or     *)
(* without break, and the entries and updates that differ from it in one   *)
(* field.  Employee 2 is never created: a request naming it names a        *)
(* missing employee.  The updates and the checkouts are calls whose        *)
(* statements interleave, with each other and with the other requests.     *)
\* The entries as they should be, and those with one field missing,
\* unparsable, empty or of a Saturday.
GoodEntryBodies ==
  [employeeId : {Num(1)}, date : {DateStr(7)}, checkInTime : {T24(9, 0)},
   checkOutTime : {Undefined, T24(17, 10)}, breakMinutes : {Undefined, Num(30)}]
ClosedEntryBody ==
  [employeeId |-> Num(1), date |-> DateStr(7), checkInTime |-> T24(9, 0),
   checkOutTime |-> T24(17, 10), breakMinutes |-> Num(30)]
TimeEntryBodies ==
  GoodEntryBodies
  \cup {[ClosedEntryBody EXCEPT !.employeeId = Undefined],
        [ClosedEntryBody EXCEPT !.employeeId = Undefined, !.date = DateStr(5)]}
  \cup {[ClosedEntryBody EXCEPT !.date = d] : d \in {Undefined, Garbage, DateStr(5)}}
  \cup {[b EXCEPT !.checkInTime = t] :
          b \in {ClosedEntryBody, [ClosedEntryBody EXCEPT !.checkOutTime = Undefined]},
          t \in {Undefined, Empty}}

\* The updates of one field: the employee, the date, the check-in time, the
\* check-out time, empty and null too, or the break; the update of no field.
TimeEntryPatches ==
  {NoData,
   [NoData EXCEPT !.employeeId = Garbage],
   [NoData EXCEPT !.checkInTime = Empty],
   [NoData EXCEPT !.breakMinutes = Num(0)]}
  \cup {[NoData EXCEPT !.date = d] : d \in {Garbage, DateStr(5)}}
  \cup {[NoData EXCEPT !.checkOutTime = t] : t \in {Empty, Null, T24(9, 0)}}

EntryIds == 1..MaxLifecycleEntries
TimeEntryCallers == Callers(TimeEntryBodies)
TimeEntryPatchCallers == Callers(TimeEntryPatches)

NextEntries ==
  \/ \E c \in EmployeeCallers :
        /\ receive("POST /api/employees", c.auth, 0, c.body)
        /\ PostEmployees(c.auth, c.body)
        /\ nextEmployeeId' <= 2
  \/ \E c \in TimeEntryCallers :
        /\ receive("POST /api/time-entries", c.auth, 0, c.body)
        /\ PostTimeEntries(c.auth, c.body)
        /\ nextEntryId' <= MaxLifecycleEntries + 1
  \/ \E c \in TimeEntryPatchCallers, id \in EntryIds :
        PatchBegins(c.auth, id, c.body)
  \/ \E auth \in BOOLEAN, id \in EntryIds :
        /\ receive("DELETE /api/time-entries/:id", auth, id, <<>>)
        /\ DeleteTimeEntry(auth, id)
  \/ \E auth \in BOOLEAN, id \in EntryIds, now \in ClockTimes :
        CheckoutBegins(auth, id, now)
  \/ TimeEntrySteps
  \/ Deliver

SpecEntries == Init /\ [][NextEntries]_vars

(* SpecReports: the chart of a daily, weekly or monthly report, on entries  *)
(* of two days of one week.                                                *)
MaxReportEntries == 2

\* Entries of the Monday and the Wednesday of the second week of the year,
\* open, of 4 hours, or of 7.67 hours after a break.  Their date is a date
\* and time without time zone, the midnight of the server.
ReportDays == {7, 9}
ReportShifts ==
  {[checkOutTime |-> Undefined, breakMinutes |-> Num(30)],
   [checkOutTime |-> T24(13, 0), breakMinutes |-> Undefined],
   [checkOutTime |-> T24(17, 10), breakMinutes |-> Num(30)]}
ReportEntryBodies ==
  {[employeeId |-> Num(e), date |-> DateAt(d, 0), checkInTime |-> T24(9, 0),
    checkOutTime |-> s.checkOutTime, breakMinutes |-> s.breakMinutes] :
     e \in EmployeeIds, d \in ReportDays, s \in ReportShifts}

\* The entries of the chart: those of the first employee and, closed after
\* a break on the Wednesday, of the second.
ChartEntryBodies ==
  {b \in ReportEntryBodies :
     \/ b.employeeId = Num(1)
     \/ b.date = DateAt(9, 0) /\ b.checkOutTime = T24(17, 10)}

\* Ranges that start or end on the days of the entries or between them, at
\* midnight or, for the start, at noon; a missing start and end.  The
\* reports of one employee are of the two days from midnight on.
ReportRanges ==
  {<<DateStr(8), DateStr(9)>>, <<DateStr(7), DateStr(9)>>,
   <<DateAt(7, 12 * 60), DateStr(9)>>, <<Undefined, Undefined>>}
ReportQueries ==
  {q \in {[reportType |-> t, dateFrom |-> r[1], dateTo |-> r[2], employeeId |-> e] :
             t \in {"daily", "weekly", "monthly"},
             r \in ReportRanges,
             e \in {AllEmployees, Digits(2)}} :
     q.employeeId = Digits(2) => q.dateFrom = DateStr(7)}

\* An employee with an address of their own is created.
CreateEmployee ==
  /\ nextEmployeeId <= MaxEmployees
  /\ receive("POST /api/employees", TRUE, 0, <<>>)
  /\ PostEmployees(TRUE, [valid |-> TRUE,
                          data |-> [email |-> Emails[nextEmployeeId],
                                    position |-> "Engineer"]])

NextReports ==
  \/ CreateEmployee
  \/ \E data \in ChartEntryBodies :
        /\ receive("POST /api/time-entries", TRUE, 0, <<>>)
        /\ PostTimeEntries(TRUE, data)
        /\ nextEntryId' <= MaxReportEntries + 1
  \/ \E c \in Callers(ReportQueries) : ReportBegins(c.auth, c.body, Now)
  \/ ReportSteps
  \/ Deliver

SpecReports == Init /\ [][NextReports]_vars

(* SpecWeekly: the weeks of a weekly report, for the ranges of the first    *)
(* days of the year, on an empty store.                                    *)
MaxWeeklyDay == 17

WeeklyTimes == {DateAt(d, t) : d \in 0..MaxWeeklyDay, t \in {0, 12 * 60}}
WeeklyQueries ==
  {[reportType |-> "weekly", dateFrom |-> from, dateTo |-> to,
    employeeId |-> AllEmployees] :
     from \in WeeklyTimes, to \in {t \in WeeklyTimes : t.b = 0}}

NextWeekly ==
  \/ \E c \in Callers(WeeklyQueries) : ReportBegins(c.auth, c.body, Now)
  \/ \E i \in DOMAIN calls : ReportReadsChart(i)
  \/ \E i \in DOMAIN calls : ReportReadsEmployees(i)
  \/ \E i \in DOMAIN calls : ReportResponds(i)
  \/ Deliver

SpecWeekly == Init /\ [][NextWeekly]_vars

(* SpecSummary: the summary of a report of the Tuesday and the Wednesday,  *)
(* on employees that are active or not, the first with entries in and out  *)
(* of the range, the second with a closed entry of the Wednesday.  The    *)
(* first employee is also updated to be active, which makes its row the    *)
(* last of the table.                                                      *)
SummaryEntryBodies ==
  {b \in ReportEntryBodies :
     /\ b.breakMinutes # Undefined
     /\ b.employeeId = Num(2) => b.date = DateAt(9, 0) /\ b.checkOutTime # Undefined}
SummaryQueries ==
  {[reportType |-> "daily", dateFrom |-> DateStr(8), dateTo |-> DateStr(9),
    employeeId |-> e] :
     e \in {Undefined, AllEmployees} \cup {Digits(i) : i \in EmployeeIds}}
Activation == [valid |-> TRUE, data |-> [status |-> "active"]]

NextSummary ==
  \/ CreateEmployee
  \/ \E id \in EmployeeIds :
        /\ receive("PATCH /api/employees/:id/deactivate", TRUE, id, <<>>)
        /\ DeactivateEmployee(TRUE, id)
  \/ /\ receive("PATCH /api/employees/:id", TRUE, 1, Activation)
     /\ PatchEmployee(TRUE, 1, Activation)
  \/ \E data \in SummaryEntryBodies :
        /\ receive("POST /api/time-entries", TRUE, 0, <<>>)
        /\ PostTimeEntries(TRUE, data)
        /\ nextEntryId' <= MaxReportEntries + 1
  \/ \E c \in Callers(SummaryQueries) : ReportBegins(c.auth, c.body, Now)
  \/ ReportSteps
  \/ Deliver

SpecSummary == Init /\ [][NextSummary]_vars

(* SpecTotals: the totals of a report on up to MaxTotalsEntries closed      *)
(* entries of one day, of four hours or of seven hours and forty minutes.  *)
MaxTotalsEntries == 3
TotalsEntryBodies ==
  {b \in ReportEntryBodies : b.date = DateAt(9, 0) /\ b.checkOutTime # Undefined}
TotalsQueries ==
  {[reportType |-> "employee", dateFrom |-> DateStr(7), dateTo |-> DateStr(9),
    employeeId |-> e] : e \in {AllEmployees, Digits(1)}}

NextTotals ==
  \/ CreateEmployee
  \/ \E data \in TotalsEntryBodies :
        /\ receive("POST /api/time-entries", TRUE, 0, <<>>)
        /\ PostTimeEntries(TRUE, data)
        /\ nextEntryId' <= MaxTotalsEntries + 1
  \/ \E c \in Callers(TotalsQueries) : ReportBegins(c.auth, c.body, Now)
  \/ ReportSteps
  \/ Deliver

SpecTotals == Init /\ [][NextTotals]_vars

(* SpecDashboard: the dashboard of the day of the request, asked with and  *)
(* without the date, on up to MaxDashboardEntries entries, open or closed, *)
(* of the first employee, and the checkouts of the entries, which run      *)
(* statement by statement between the statements of the dashboard.  The    *)
(* request comes on the Wednesday at 17:10 of the server, which west of    *)
(* UTC is the Thursday in UTC: the entries are of the Wednesday and the    *)
(* Thursday.                                                               *)
MaxDashboardEntries == 3
DashboardDays == {Now.a, Now.a + 1}
DashboardEntryBodies ==
  {[employeeId |-> Num(1), date |-> DateAt(d, 0), checkInTime |-> T24(9, 0),
    checkOutTime |-> s.checkOutTime, breakMinutes |-> s.breakMinutes] :
     d \in DashboardDays, s \in {s \in ReportShifts : s.breakMinutes # Undefined}}
DashboardQueries == {[date |-> Undefined], [date |-> DateStr(Now.a)]}

NextDashboard ==
  \/ CreateEmployee
  \/ \E data \in DashboardEntryBodies :
        /\ receive("POST /api/time-entries", TRUE, 0, <<>>)
        /\ PostTimeEntries(TRUE, data)
        /\ nextEntryId' <= MaxDashboardEntries + 1
  \/ \E id \in 1..MaxDashboardEntries :
        CheckoutBegins(TRUE, id, <<Now.b \div 60, Now.b % 60>>)
  \/ TimeEntrySteps
  \/ \E c \in Callers(DashboardQueries) : DashboardBegins(c.auth, c.body, Now)
  \/ DashboardSteps
  \/ Deliver

SpecDashboard == Init /\ [][NextDashboard]_vars

(* SpecAverages: the dashboard of the Wednesday, on employees that are     *)
(* active or not and closed entries of that day, of the Monday before it   *)
(* and of the Wednesday of the week before.                                *)
AverageDays == {2, 7, 9}
AverageEntryBodies ==
  {[employeeId |-> Num(1), date |-> DateAt(d, 0), checkInTime |-> T24(9, 0),
    checkOutTime |-> s.checkOutTime, breakMinutes |-> s.breakMinutes] :
     d \in AverageDays, s \in {s \in ReportShifts : s.checkOutTime # Undefined}}

NextAverages ==
  \/ CreateEmployee
  \/ \E id \in EmployeeIds :
        /\ receive("PATCH /api/employees/:id/deactivate", TRUE, id, <<>>)
        /\ DeactivateEmployee(TRUE, id)
  \/ \E data \in AverageEntryBodies :
        /\ receive("POST /api/time-entries", TRUE, 0, <<>>)
        /\ PostTimeEntries(TRUE, data)
        /\ nextEntryId' <= MaxReportEntries + 1
  \/ \E auth \in BOOLEAN : DashboardBegins(auth, [date |-> DateStr(9)], Now)
  \/ DashboardSteps
  \/ Deliver

SpecAverages == Init /\ [][NextAverages]_vars

(* SpecUtils: the time utilities applied to their arguments.  A request   *)
(* names the function and holds its arguments; the body of the response   *)
(* is the sequence of the results, formatTimeForInput being applied again  *)
(* to its own result.                                                      *)
TimeStrings ==
  {T12(h, m, p) : h \in 1..12, m \in 0..59, p \in {"AM", "PM"}}
  \cup {T24(0, 5), T24(13, 5), Empty}
Missing == {Undefined, Null, Empty}
ShiftTimes == {T24(h, m) : h \in 0..23, m \in {0, 30}} \cup Missing
ShiftBreaks == {Num(0), Num(30), Num(60)}

DayTimes == {T24(h, m) : h \in 0..23, m \in 0..59}

InitUtils ==
  /\ employees = <<>> /\ nextEmployeeId = 1 /\ employeeRows = <<>>
  /\ entries = <<>> /\ nextEntryId = 1 /\ entryRows = <<>>
  /\ res = NoResponse
  /\ calls = <<>>
  /\ tz = 0
  /\ req \in {[op |-> "formatTimeForInput", auth |-> TRUE, id |-> 0,
               body |-> [timeString |-> t]] : t \in TimeStrings}
        \cup {[op |-> "calculateTotalHours", auth |-> TRUE, id |-> 0,
               body |-> [checkInTime |-> i, checkOutTime |-> o, breakMinutes |-> b]] :
                i \in ShiftTimes, o \in ShiftTimes, b \in ShiftBreaks}
        \cup {[op |-> "timeToMinutes", auth |-> TRUE, id |-> 0,
               body |-> [timeString |-> t]] : t \in DayTimes}

ApplyFormatTimeForInput ==
  /\ req.op = "formatTimeForInput"
  /\ Len(res.body) < 2
  /\ LET timeString == IF res.body = <<>> THEN req.body.timeString
                       ELSE res.body[Len(res.body)]
     IN res' = [status |-> 200, error |-> "", message |-> "",
                body |-> Append(res.body, formatTimeForInput(timeString))]
  /\ UNCHANGED <<store, req, calls, tz>>

ApplyCalculateTotalHours ==
  /\ req.op = "calculateTotalHours"
  /\ res.body = <<>>
  /\ res' = [status |-> 200, error |-> "", message |-> "",
             body |-> <<calculateTotalHours(req.body.checkInTime,
                                            req.body.checkOutTime,
                                            req.body.breakMinutes)>>]
  /\ UNCHANGED <<store, req, calls, tz>>

\* calculateTotalHours of the same times as they are stored, in 12-hour
\* form, as updateTimeEntry recomputes totalHours from a stored entry.
ApplyCalculateFromStored ==
  /\ req.op = "calculateTotalHours"
  /\ Len(res.body) = 1
  /\ res' = [res EXCEPT !.body =
               Append(@, calculateTotalHours(formatTime(req.body.checkInTime),
                                             formatTime(req.body.checkOutTime),
                                             req.body.breakMinutes))]
  /\ UNCHANGED <<store, req, calls, tz>>

\* timeToMinutes of a time and of its 12-hour form.
ApplyTimeToMinutes ==
  /\ req.op = "timeToMinutes"
  /\ res.body = <<>>
  /\ res' = [status |-> 200, error |-> "", message |-> "",
             body |-> <<timeToMinutes(req.body.timeString),
                        timeToMinutes(formatTime(req.body.timeString))>>]
  /\ UNCHANGED <<store, req, calls, tz>>

NextUtils ==
  \/ ApplyFormatTimeForInput
  \/ ApplyCalculateTotalHours
  \/ ApplyCalculateFromStored
  \/ ApplyTimeToMinutes

SpecUtils == InitUtils /\ [][NextUtils]_vars

(* SpecDelete: closed entries of the first employee created and deleted,   *)
(* and every query asked in between: by id, the list, a daily report of    *)
(* the days of the entries and the dashboard of the Wednesday.  The        *)
(* other requests are handled between the statements of the list, the     *)
(* report and the dashboard.                                               *)
MaxDeleteEntries == 2
DeleteEntryIds == 1..MaxDeleteEntries
DeleteEntryBodies ==
  {b \in ReportEntryBodies :
     /\ b.employeeId = Num(1)
     /\ b.checkOutTime = T24(17, 10)}
DeleteReportQuery ==
  [reportType |-> "daily", dateFrom |-> DateStr(7), dateTo |-> DateStr(9),
   employeeId |-> Undefined]
DeleteDashboardQuery == [date |-> DateStr(9)]

NextDelete ==
  \/ CreateEmployee
  \/ \E data \in DeleteEntryBodies :
        /\ receive("POST /api/time-entries", TRUE, 0, <<>>)
        /\ PostTimeEntries(TRUE, data)
        /\ nextEntryId' <= MaxDeleteEntries + 1
  \/ \E auth \in BOOLEAN, id \in DeleteEntryIds :
        /\ receive("DELETE /api/time-entries/:id", auth, id, <<>>)
        /\ DeleteTimeEntry(auth, id)
  \/ \E id \in DeleteEntryIds :
        /\ receive("GET /api/time-entries/:id", TRUE, id, <<>>)
        /\ GetTimeEntry(TRUE, id)
  \/ \E auth \in BOOLEAN : ListBegins(auth, NoListQuery)
  \/ ListSteps
  \/ \E auth \in BOOLEAN : ReportBegins(auth, DeleteReportQuery, Now)
  \/ ReportSteps
  \/ \E auth \in BOOLEAN : DashboardBegins(auth, DeleteDashboardQuery, Now)
  \/ DashboardSteps
  \/ Deliver

SpecDelete == Init /\ [][NextDelete]_vars

(* SpecConcurrent: up to MaxCalls calls of updateTimeEntry and of          *)
(* checkoutTimeEntry in progress at once on the MaxConcurrentEntries        *)
(* entries of the first employee, and the entries deleted meanwhile.  Every await of a call is  *)
(* a step of its own: the read of the entry by checkoutTimeEntry, the read *)
(* by updateTimeEntry and its update statement; the steps of the calls     *)
(* interleave freely.  calls[i].pc is the statement call i is at,          *)
(* calls[i].currentEntry what it has read, calls[i].ret what its update    *)
(* statement has returned.  The updates set the break, to a number or to   *)
(* what Number makes of a string that is none, or the check-in time.       *)
ConcurrentEntryBody ==
  [employeeId |-> Num(1), date |-> DateAt(7, 0), checkInTime |-> T24(9, 0),
   checkOutTime |-> Undefined, breakMinutes |-> Num(30)]
ConcurrentUpdates ==
  {[NoData EXCEPT !.breakMinutes = Num(60)],
   [NoData EXCEPT !.breakMinutes = NaN],
   [NoData EXCEPT !.checkInTime = T24(10, 0)]}
ConcurrentClocks == {<<17, 10>>, <<17, 11>>}

NextConcurrent ==
  \/ CreateEmployee
  \/ /\ receive("POST /api/time-entries", TRUE, 0, <<>>)
     /\ PostTimeEntries(TRUE, ConcurrentEntryBody)
     /\ nextEntryId' <= MaxConcurrentEntries + 1
  \/ \E id \in DOMAIN entries, data \in ConcurrentUpdates :
        CallUpdateTimeEntry(id, data)
  \/ \E id \in DOMAIN entries, now \in ConcurrentClocks :
        CallCheckoutTimeEntry(id, now)
  \/ TimeEntrySteps
  \/ \E id \in DOMAIN entries :
        /\ receive("DELETE /api/time-entries/:id", TRUE, id, <<>>)
        /\ DeleteTimeEntry(TRUE, id)
  \/ Deliver

SpecConcurrent == Init /\ [][NextConcurrent]_vars

(* SpecHours: entries of the first employee with a short, a whole-day and  *)
(* a usual shift, a check-out whose minutes are no number, a check-out     *)
(* without colon, one that is a date and time, or open, and a break that   *)
(* is absent, of one hour, of ten hours, negative or of more hours than    *)
(* the column holds.  The break is set to ten hours or to more hours than  *)
(* the column holds, the check-out to a string that is no time, and open   *)
(* entries are checked out; the updates and the checkouts are calls whose  *)
(* statements interleave.                                                  *)
HoursBreaks == {Num(0), Num(60), Num(600), Num(-60), Num(700000)}
HoursCheckOuts ==
  {Undefined, T24(9, 0), T24(9, 30), T24(17, 10), T24(17, NaNPart), Garbage,
   DateAt(7, 12 * 60 + 5)}
HoursEntryBodies ==
  {[employeeId |-> Num(1), date |-> DateAt(7, 0), checkInTime |-> T24(9, 0),
    checkOutTime |-> o, breakMinutes |-> b] :
     o \in HoursCheckOuts, b \in HoursBreaks}
HoursPatches ==
  {[NoData EXCEPT !.breakMinutes = b] : b \in {Num(600), Num(700000)}}
  \cup {[NoData EXCEPT !.checkOutTime = o] :
          o \in {T24(NaNPart, NaNPart), Garbage}}

NextHours ==
  \/ CreateEmployee
  \/ \E c \in Callers(HoursEntryBodies) :
        /\ receive("POST /api/time-entries", c.auth, 0, c.body)
        /\ PostTimeEntries(c.auth, c.body)
        /\ nextEntryId' <= MaxLifecycleEntries + 1
  \/ \E c \in Callers(HoursPatches), id \in EntryIds :
        PatchBegins(c.auth, id, c.body)
  \/ \E auth \in BOOLEAN, id \in EntryIds, now \in ClockTimes :
        CheckoutBegins(auth, id, now)
  \/ TimeEntrySteps
  \/ Deliver

SpecHours == Init /\ [][NextHours]_vars

(* SpecPages: getTimeEntries on up to MaxPageEntries entries of two        *)
(* employees and two days, for the pages from 1 to MaxPage of 1 to         *)
(* MaxPageSize entries, with and without a filter, while entries are       *)
(* created.  The result of the call is the body of the response.           *)
MaxPageEntries == 3
MaxPage == 3
MaxPageSize == 2
PageEntryBodies ==
  {b \in ReportEntryBodies : b.checkOutTime = Undefined}
PageFilters ==
  [dateFrom : {Undefined, DateAt(9, 0)}, dateTo : {Undefined},
   employeeId : {Undefined, Num(1)},
   page : {Num(p) : p \in 1..MaxPage}, pageSize : 1..MaxPageSize]

\* getTimeEntries(filters) is called and counts the entries.
CallGetTimeEntries(filters) ==
  /\ Len(calls) < MaxQueries
  /\ calls' = Append(calls, listCall("getTimeEntries", filters, filters))
  /\ UNCHANGED <<store, req, res, tz>>

NextPages ==
  \/ CreateEmployee
  \/ \E data \in PageEntryBodies :
        /\ receive("POST /api/time-entries", TRUE, 0, <<>>)
        /\ PostTimeEntries(TRUE, data)
        /\ nextEntryId' <= MaxPageEntries + 1
  \/ \E filters \in PageFilters : CallGetTimeEntries(filters)
  \/ ListSteps
  \/ Deliver

SpecPages == Init /\ [][NextPages]_vars

(* ------------------------------ properties ----------------------------- *)
\* The order of each table holds the ids of its rows, each once.
TableOrder ==
  /\ Ids(employeeRows) = DOMAIN employees
  /\ Len(employeeRows) = Cardinality(DOMAIN employees)
  /\ Ids(entryRows) = DOMAIN entries
  /\ Len(entryRows) = Cardinality(DOMAIN entries)

\* The call that has answered the request, with what its statements have
\* read.
Answered == calls[CHOOSE i \in DOMAIN calls : calls[i].pc = "responded"]

\* No request was handled between the statements of the call that has
\* answered: the tables are as each of its statements has read them.
ReadAtOnce ==
  \A f \in DOMAIN Answered :
    /\ f \in {"todayRead", "weekRead", "chartRead", "countRead", "pageRead"}
         => Answered[f] = entries
    /\ f = "employeesRead" => Answered[f] = employees
    /\ f = "entriesRead" => \A e \in DOMAIN Answered[f] : Answered[f][e] = entries
    /\ f = "allEmployees" => Answered[f] = activeEmployees

\* What the specification calls the state of an entry.
IsSet(v) == v.k \in {"24h", "AM", "PM"}
Closed(e) == IsSet(e.checkOutTime)

\* (checkOutMinutes - checkInMinutes - breakMinutes) / 60 on the wraparound
\* clock, from the stored fields of e, at the precision of the column.
DerivedTotal(e) ==
  LET checkInMinutes == timeToMinutes(e.checkInTime).a
      checkOutMinutes == timeToMinutes(e.checkOutTime).a
      breakMinutes == IF e.breakMinutes.k = "number" THEN e.breakMinutes.a ELSE 0
      elapsed == IF checkOutMinutes <= checkInMinutes
                 THEN checkOutMinutes + 24 * 60 - checkInMinutes - breakMinutes
                 ELSE checkOutMinutes - checkInMinutes - breakMinutes
  IN Num((elapsed * 100 + 30) \div 60)

\* The date of a request is a date string that names a Saturday or a
\* Sunday: day 0 is a Monday.
IsSaturdayOrSunday(v) == v.k \in {"datestr", "date"} /\ v.a % 7 \in {5, 6}

\* The calendar day that the date column of the entry e holds.
StoredDay(e) == (e.date.a * 24 * 60 + e.date.b - tz) \div (24 * 60)

\* C1: every stored entry that has a check-out time has totalHours equal to
\* the hours derived from its stored check-in time, check-out time and break
\* minutes, 24 hours added when the check-out is not after the check-in.
C1_TotalHoursDerived ==
  \A id \in DOMAIN entries :
    Closed(entries[id]) =>
      /\ IsSet(entries[id].checkInTime)
      /\ entries[id].totalHours = DerivedTotal(entries[id])

\* C2: an authenticated POST /api/time-entries whose date is a Saturday or a
\* Sunday is answered 400 whatever its other fields are, and the stored
\* time entries are the same after it as before.
C2_WeekendCreateRejected ==
  [][(/\ req'.op = "POST /api/time-entries"
      /\ req'.auth
      /\ IsSaturdayOrSunday(req'.body.date))
     => (res'.status = 400 /\ entries' = entries)]_vars

\* The same on a server whose time is UTC.
WeekendCreateRejectedInUTC ==
  [][(/\ req'.op = "POST /api/time-entries"
      /\ req'.auth
      /\ tz = 0
      /\ IsSaturdayOrSunday(req'.body.date))
     => (res'.status = 400 /\ entries' = entries)]_vars

\* C3: no stored time entry has a date that is a Saturday or a Sunday, and an
\* authenticated PATCH /api/time-entries/:id whose date is a Saturday or a
\* Sunday is answered 400 and leaves the entries as they were.
C3_NoWeekendDate ==
  /\ [](\A id \in DOMAIN entries : StoredDay(entries[id]) % 7 \notin {5, 6})
  /\ [][(/\ req'.op = "PATCH /api/time-entries/:id"
         /\ req'.auth
         /\ IsSaturdayOrSunday(req'.body.date))
        => (res'.status = 400 /\ entries' = entries)]_vars

\* The same on a server whose time is UTC.
NoWeekendDateInUTC ==
  /\ [](tz = 0 => \A id \in DOMAIN entries : StoredDay(entries[id]) % 7 \notin {5, 6})
  /\ [][(/\ req'.op = "PATCH /api/time-entries/:id"
         /\ req'.auth
         /\ tz = 0
         /\ IsSaturdayOrSunday(req'.body.date))
        => (res'.status = 400 /\ entries' = entries)]_vars

\* The call i takes a step: it reads, writes or returns.
StepOf(i) ==
  /\ Len(calls') >= Len(calls)
  /\ calls'[i].pc # calls[i].pc

\* A call of checkoutTimeEntry, by a request or on its own.
IsCheckout(c) ==
  c.op \in {"POST /api/time-entries/:id/checkout", "checkoutTimeEntry"}

\* A call runs its update statement on an entry that was written or
\* deleted since the call read it.
StaleWrite ==
  \E i \in DOMAIN calls :
    /\ calls[i].pc = "update" /\ StepOf(i)
    /\ calls[i].currentEntry # getTimeEntryById(calls[i].id)

\* The entry id is written by the step: inserted or updated.
Written(id) ==
  /\ id \in DOMAIN entries'
  /\ id \in DOMAIN entries => entries'[id] # entries[id]

\* The call has returned: the call of a request has answered it.
Returned(c) == c.pc \in {"responded", "done"}

\* C4: a call of checkoutTimeEntry made on an entry that has a check-out
\* time returns undefined, so that its request is answered 404, and no
\* statement of the call changes a field of an entry, whatever is handled
\* between its statements; the same holds of a call whose read finds the
\* entry with a check-out time.
C4_CheckoutClosedNoOp ==
  /\ [](\A i \in DOMAIN calls :
          IsCheckout(calls[i]) /\ calls[i].closed
          => /\ calls[i].pc = "entry" \/ Returned(calls[i])
             /\ Returned(calls[i]) => calls[i].ret = "undefined"
             /\ calls[i].pc = "responded" => res.status = 404)
  /\ [][\A i \in DOMAIN calls :
          /\ IsCheckout(calls[i])
          /\ StepOf(i)
          /\ \/ calls[i].closed
             \/ /\ calls[i].pc = "entry"
                /\ calls[i].id \in DOMAIN entries
                /\ entries[calls[i].id].checkOutTime # Null
          => /\ entries' = entries
             /\ Returned(calls'[i])
             /\ calls'[i].ret = "undefined"
             /\ calls'[i].pc = "responded" => res'.status = 404]_vars

\* A checkout of an entry that was closed when the request came has been
\* answered 404 after another request was handled, and the entry is stored
\* and closed.
C4_Witness ==
  /\ req.op = "POST /api/time-entries/:id/checkout" /\ req.auth
  /\ Answered.closed /\ Answered.overtaken > 0
  /\ req.id \in DOMAIN entries
  /\ Closed(entries[req.id])
  /\ res.status = 404

\* C5: an entry that has a check-out time has one after every step that does
\* not delete it.
C5_ClosedStaysClosed ==
  [][\A id \in DOMAIN entries \cap DOMAIN entries' :
       Closed(entries[id]) => Closed(entries'[id])]_vars

\* An update sending an empty or null checkOutTime has been answered with
\* the entry, which is closed, after another request was handled between
\* its statements.
C5_Witness ==
  /\ req.op = "PATCH /api/time-entries/:id" /\ req.auth
  /\ req.body.checkOutTime \in {Empty, Null}
  /\ res.status = 200
  /\ Answered.closed /\ Answered.overtaken > 0
  /\ req.id \in DOMAIN entries
  /\ Closed(entries[req.id])

\* An update and a checkout of the same entry are in progress, both between
\* their read and their update statement.
UpdateOverlapsCheckout ==
  \E i, j \in DOMAIN calls :
    /\ calls[i].op = "PATCH /api/time-entries/:id"
    /\ calls[j].op = "POST /api/time-entries/:id/checkout"
    /\ calls[i].id = calls[j].id
    /\ calls[i].pc = "update" /\ calls[j].pc = "update"

\* C6: every stored entry is OPEN (check-in time set, check-out time null,
\* totalHours null) or CLOSED (check-out time set, totalHours not null).
C6_OpenOrClosed ==
  \A id \in DOMAIN entries :
    \/ /\ IsSet(entries[id].checkInTime)
       /\ entries[id].checkOutTime = Null
       /\ entries[id].totalHours = Null
    \/ /\ IsSet(entries[id].checkOutTime)
       /\ entries[id].totalHours.k = "number"

\* C7: every request sent without an authenticated session is answered 401
\* and leaves the employees and the time entries as they were.
C7_UnauthenticatedRejected ==
  [][(req' # NoRequest /\ ~req'.auth)
     => (res'.status = 401 /\ UNCHANGED store)]_vars

\* An unauthenticated DELETE of a stored entry has been answered 401.
C7_Witness ==
  /\ req.op = "DELETE /api/time-entries/:id" /\ ~req.auth
  /\ req.id \in DOMAIN entries
  /\ res.status = 401 /\ res.message = "Not authenticated"

\* The required fields of a new entry, and the fields an update carries, as
\* the claim lists them: checkInTime missing or empty, employeeId missing or
\* not a number, a date that does not parse.
MalformedCreate(body) ==
  \/ body.checkInTime \in {Undefined, Empty}
  \/ body.employeeId.k # "number"
  \/ body.date.k \notin {"datestr", "date"}
MalformedUpdate(body) ==
  \/ body.checkInTime = Empty
  \/ body.employeeId.k \notin {"undefined", "number"}
  \/ body.date.k \notin {"undefined", "datestr", "date"}

\* C8: an authenticated create, or update of a stored entry, with a malformed
\* or missing required field is answered 400 and leaves the entries as they
\* were.
C8_MalformedRejected ==
  [][(/\ req'.auth
      /\ \/ req'.op = "POST /api/time-entries" /\ MalformedCreate(req'.body)
         \/ /\ req'.op = "PATCH /api/time-entries/:id"
            /\ req'.id \in DOMAIN entries
            /\ MalformedUpdate(req'.body))
     => (res'.status = 400 /\ entries' = entries)]_vars

\* The requests that address a record by its id, and the ids of the records
\* of the kind each addresses.
EmployeeIdOps ==
  {"GET /api/employees/:id", "PATCH /api/employees/:id",
   "PATCH /api/employees/:id/deactivate"}
TimeEntryIdOps ==
  {"GET /api/time-entries/:id", "PATCH /api/time-entries/:id",
   "DELETE /api/time-entries/:id", "POST /api/time-entries/:id/checkout"}
AddressedIds(op) == IF op \in EmployeeIdOps THEN DOMAIN employees ELSE DOMAIN entries

\* C9: an authenticated request that addresses an employee or a time entry
\* by id is answered 404 exactly when no record has that id.
C9_NotFoundIffMissing ==
  [][(req'.auth /\ req'.op \in EmployeeIdOps \cup TimeEntryIdOps)
     => (res'.status = 404 <=> req'.id \notin AddressedIds(req'.op))]_vars

\* C10: no step removes an employee, and a deactivate request sets the
\* status of the employee it addresses to inactive and leaves the other
\* fields of that employee, every other employee and every time entry as
\* they were.
C10_EmployeesKept ==
  [][/\ DOMAIN employees \subseteq DOMAIN employees'
     /\ (req'.op = "PATCH /api/employees/:id/deactivate" /\ req'.auth)
        => /\ entries' = entries
           /\ DOMAIN employees' = DOMAIN employees
           /\ \A i \in DOMAIN employees :
                employees'[i] = IF i = req'.id
                                THEN [employees[i] EXCEPT !.status = "inactive"]
                                ELSE employees[i]]_vars

\* The same for the requests that send no id: no step but an update that
\* sends an id removes an employee.
EmployeesKeptWithoutId ==
  [][/\ (req'.op = "PATCH /api/employees/:id" /\ "id" \in DOMAIN req'.body.data)
        \/ DOMAIN employees \subseteq DOMAIN employees'
     /\ (req'.op = "PATCH /api/employees/:id/deactivate" /\ req'.auth)
        => /\ entries' = entries
           /\ DOMAIN employees' = DOMAIN employees
           /\ \A i \in DOMAIN employees :
                employees'[i] = IF i = req'.id
                                THEN [employees[i] EXCEPT !.status = "inactive"]
                                ELSE employees[i]]_vars

\* C11: the status of every stored employee is active or inactive.
C11_StatusActiveOrInactive ==
  \A id \in DOMAIN employees : employees[id].status \in {"active", "inactive"}

\* A report has been answered to an authenticated request that names its
\* range, dateFrom <= dateTo.
ReportAnswered ==
  /\ req.op = "GET /api/reports" /\ req.auth /\ res.status = 200
  /\ req.body.dateFrom.k \in {"datestr", "date"}
  /\ req.body.dateTo.k \in {"datestr", "date"}
  /\ dateLeq(parseISO(req.body.dateFrom), parseISO(req.body.dateTo))

\* The chart has one bucket for each calendar day from the day of dateFrom to
\* the day of dateTo, in order.
OneBucketPerDay ==
  /\ DOMAIN res.body.chartData = 1..(req.body.dateTo.a - req.body.dateFrom.a + 1)
  /\ \A i \in DOMAIN res.body.chartData :
       res.body.chartData[i].key = req.body.dateFrom.a + i - 1

\* The bucket of a day on which no entry is closed has no values; the
\* entries are those stored when the chart was read.
NoValuesWithoutClosedEntry ==
  LET stored == Answered.chartRead
  IN \A i \in DOMAIN res.body.chartData :
       (\A id \in DOMAIN stored :
          stored[id].date.a = res.body.chartData[i].key => ~Closed(stored[id]))
       => DOMAIN res.body.chartData[i].values = {}

\* C12: the chart of a daily, custom or employee report for dateFrom <= dateTo
\* has exactly one bucket for each calendar day of [dateFrom, dateTo], in
\* chronological order, and the bucket of a day with no closed entry has no
\* values.
C12_DailyBuckets ==
  (ReportAnswered /\ req.body.reportType \in {"daily", "custom", "employee"})
  => (OneBucketPerDay /\ NoValuesWithoutClosedEntry)

\* The same for the ranges whose start is not later in its day than the end
\* is in its own.
DailyBucketsAligned ==
  (/\ ReportAnswered /\ req.body.reportType \in {"daily", "custom", "employee"}
   /\ parseISO(req.body.dateFrom).b <= parseISO(req.body.dateTo).b)
  => (OneBucketPerDay /\ NoValuesWithoutClosedEntry)

\* C13: in the chart of a weekly report for dateFrom <= dateTo every bucket
\* starts on a Monday, each bucket starts seven days after the one before,
\* the first is the week that contains dateFrom and the last the week that
\* contains dateTo.
C13_WeeklyBuckets ==
  (ReportAnswered /\ req.body.reportType = "weekly")
  => LET chart == res.body.chartData
     IN /\ Len(chart) >= 1
        /\ \A i \in DOMAIN chart : chart[i].key % 7 = 0
        /\ \A i \in DOMAIN chart : i > 1 => chart[i].key = chart[i - 1].key + 7
        /\ chart[1].key <= req.body.dateFrom.a
        /\ req.body.dateFrom.a <= chart[1].key + 6
        /\ chart[Len(chart)].key <= req.body.dateTo.a
        /\ req.body.dateTo.a <= chart[Len(chart)].key + 6

\* A weekly report from a Sunday noon to the Wednesday ten days later has
\* been answered with three weeks.
C13_Witness ==
  /\ ReportAnswered /\ req.body.reportType = "weekly"
  /\ req.body.dateFrom = DateAt(6, 12 * 60)
  /\ req.body.dateTo = DateAt(16, 0)
  /\ Len(res.body.chartData) = 3

\* The bucket i of the chart covers the calendar day d: the day itself, its
\* week from Monday on, or its month.
BucketCovers(i, d) ==
  LET key == res.body.chartData[i].key
  IN CASE req.body.reportType = "weekly" -> key <= d /\ d <= key + 6
       [] req.body.reportType = "monthly" ->
            key <= d /\ \A m \in DOMAIN MonthLengths : key < monthStart(m) => d < monthStart(m)
       [] OTHER -> d = key

\* The entries that are to count in bucket i for employee e: those of e with
\* a totalHours, matching the employee filter if one is given, dated within
\* [dateFrom, dateTo] and in the bucket, among the entries stored.
CountedEntries(stored, i, e) ==
  {id \in DOMAIN stored :
     /\ stored[id].employeeId = Num(e)
     /\ stored[id].totalHours # Null
     /\ req.body.employeeId.k = "digits" => req.body.employeeId.a = e
     /\ req.body.dateFrom.a <= stored[id].date.a
     /\ stored[id].date.a <= req.body.dateTo.a
     /\ BucketCovers(i, stored[id].date.a)}

\* The hours x of a report at the two decimals of totalHours, in
\* hundredths.
Hundredths(x) == toFixed2(x).a

\* The value of every bucket under every employee is the sum of totalHours
\* of the entries that are to count, no value standing for 0; the entries
\* are those stored when the chart was read.
ChartValuesAreSums ==
  LET stored == Answered.chartRead
  IN \A i \in DOMAIN res.body.chartData, e \in EmployeeIds :
       LET values == res.body.chartData[i].values
       IN (IF e \in DOMAIN values THEN Hundredths(values[e]) ELSE 0)
            = Sum([id \in DOMAIN stored |-> stored[id].totalHours.a],
                  CountedEntries(stored, i, e))

\* C14: in the chart of every report, the value of a bucket under an
\* employee is the sum of totalHours of exactly the entries of that employee
\* that have a totalHours, match the employee filter, are dated within
\* [dateFrom, dateTo] and in the bucket.
C14_ChartSums == ReportAnswered => ChartValuesAreSums

\* The same for daily, custom and employee reports over ranges whose start
\* is not later in its day than the end is in its own.
ChartSumsDailyAligned ==
  (/\ ReportAnswered /\ req.body.reportType \in {"daily", "custom", "employee"}
   /\ parseISO(req.body.dateFrom).b <= parseISO(req.body.dateTo).b)
  => ChartValuesAreSums

\* The entries of employee e dated within [dateFrom, dateTo], among the
\* entries stored.
InRangeEntries(stored, e) ==
  {id \in DOMAIN stored :
     /\ stored[id].employeeId = Num(e)
     /\ req.body.dateFrom.a <= stored[id].date.a
     /\ stored[id].date.a <= req.body.dateTo.a}

\* The employees in the scope of the report: the one the filter names, or
\* the active ones, among the employees stored when the summary read them.
InScope ==
  LET stored == Answered.employeesRead
  IN IF req.body.employeeId.k = "digits"
     THEN {e \in DOMAIN stored : e = req.body.employeeId.a}
     ELSE {e \in DOMAIN stored : stored[e].status = "active"}

\* r is n / d at two decimals: a hundredth nearest to the quotient.
Rounded(r, n, d) == 2 * (r * d - n) <= d /\ 2 * (n - r * d) <= d

\* C15: the summary has one row for each employee in scope that has an
\* entry dated in [dateFrom, dateTo] and no other row; in the row of an
\* employee totalDays counts the in-range entries that have a totalHours,
\* totalHours is their sum, avgDailyHours is totalHours / totalDays (0 when
\* totalDays is 0) and totalBreakMinutes is the sum of the break minutes of
\* all the in-range entries; the sums of hours are taken at two decimals
\* and the quotient is that of the two numbers of the row.  The employees
\* are those stored when the summary read them, and the entries of an
\* employee those stored when the summary read the entries of that
\* employee, which it did for every employee in scope and for no other.
C15_EmployeeSummary ==
  ReportAnswered
  => LET rows == res.body.summaryData
         entriesRead == Answered.entriesRead
     IN /\ DOMAIN entriesRead = InScope
        /\ \A e \in DOMAIN Answered.employeesRead :
             Cardinality({i \in DOMAIN rows : rows[i].employeeId = e})
               = IF e \in InScope /\ InRangeEntries(entriesRead[e], e) # {}
                 THEN 1 ELSE 0
        /\ \A i \in DOMAIN rows :
             rows[i].employeeId \in DOMAIN Answered.employeesRead
        /\ \A i \in DOMAIN rows :
             LET stored == entriesRead[rows[i].employeeId]
                 all == InRangeEntries(stored, rows[i].employeeId)
                 done == {id \in all : stored[id].totalHours # Null}
             IN /\ rows[i].totalDays = Cardinality(done)
                /\ Hundredths(rows[i].totalHours)
                     = Sum([id \in done |-> stored[id].totalHours.a], done)
                /\ rows[i].totalDays > 0
                     => /\ rows[i].avgDailyHours
                             = ddiv(rows[i].totalHours, rows[i].totalDays)
                        /\ Rounded(Hundredths(rows[i].avgDailyHours),
                                   Hundredths(rows[i].totalHours), rows[i].totalDays)
                /\ rows[i].totalDays = 0 => rows[i].avgDailyHours = ZeroD
                /\ rows[i].totalBreakMinutes
                     = Sum([id \in all |-> stored[id].breakMinutes.a], all)

\* A report filtered on an employee who is inactive and has an open and a
\* closed entry in the range has been answered with the row of that
\* employee.
C15_Witness ==
  /\ ReportAnswered
  /\ req.body.employeeId.k = "digits"
  /\ req.body.employeeId.a \in DOMAIN Answered.employeesRead
  /\ Answered.employeesRead[req.body.employeeId.a].status = "inactive"
  /\ Len(res.body.summaryData) = 1
  /\ res.body.summaryData[1].totalDays = 1
  /\ Hundredths(res.body.summaryData[1].totalHours) = 767
  /\ res.body.summaryData[1].totalBreakMinutes = 60
  /\ \E i \in DOMAIN Answered.employeesRead :
       Answered.employeesRead[i].status = "active"

\* C16: the totals of a report are the sums of totalDays, totalHours and
\* totalBreakMinutes over the rows of its summary, and their avgDailyHours
\* is the sum of totalHours divided by the sum of totalDays, 0 when no day
\* is counted; the sums of hours are taken at two decimals and the quotient
\* is that of the two numbers of the totals.
C16_GrandTotals ==
  ReportAnswered
  => LET rows == res.body.summaryData
         totals == res.body.employeeTotals
         days == Sum([i \in DOMAIN rows |-> rows[i].totalDays], DOMAIN rows)
         hours == Sum([i \in DOMAIN rows |-> Hundredths(rows[i].totalHours)],
                      DOMAIN rows)
     IN /\ totals.totalDays = days
        /\ Hundredths(totals.totalHours) = hours
        /\ totals.totalBreakMinutes
             = Sum([i \in DOMAIN rows |-> rows[i].totalBreakMinutes], DOMAIN rows)
        /\ days > 0
             => /\ totals.avgDailyHours = ddiv(totals.totalHours, totals.totalDays)
                /\ Rounded(Hundredths(totals.avgDailyHours), hours, days)
        /\ days = 0 => totals.avgDailyHours = ZeroD

\* A report has two rows, of two days and of one day, and the avgDailyHours
\* of its totals is not the mean of the avgDailyHours of the two rows.
C16_Witness ==
  /\ ReportAnswered
  /\ Len(res.body.summaryData) = 2
  /\ res.body.summaryData[1].totalDays = 2
  /\ res.body.summaryData[2].totalDays = 1
  /\ LET a == Hundredths(res.body.summaryData[1].avgDailyHours)
         b == Hundredths(res.body.summaryData[2].avgDailyHours)
         t == Hundredths(res.body.employeeTotals.avgDailyHours)
     IN 2 * t - (a + b) > 2 \/ (a + b) - 2 * t > 2

\* The dashboard has been answered to an authenticated request.
DashboardAnswered ==
  req.op = "GET /api/dashboard" /\ req.auth /\ res.status = 200

\* The calendar day the dashboard was asked for: the date parameter, or the
\* day that getDashboardStats was called with.
DashboardDay == dashboardDate(req.body, Now).a

\* The hours of the entries ids among the entries stored, an entry
\* without a check-out time or without totalHours counting 0.
ClosedHours(stored, ids) ==
  Sum([id \in ids |-> IF Closed(stored[id]) /\ stored[id].totalHours # Null
                      THEN stored[id].totalHours.a ELSE 0], ids)

\* C17: the totalHours of the dashboard statistics of a day is the sum of
\* the totalHours of the entries dated on that day, 0 for an entry without
\* a check-out time, and checkedInCount is the number of the entries of
\* that day without a check-out time; the entries of other days count in
\* neither.  The entries are those stored when the statistics read the
\* entries of the day.
C17_DashboardDay ==
  DashboardAnswered
  => LET stored == Answered.todayRead
         today == {id \in DOMAIN stored : stored[id].date.a = DashboardDay}
     IN /\ res.body.stats.totalHours = Num(ClosedHours(stored, today))
        /\ res.body.stats.checkedInCount
             = Cardinality({id \in today : ~Closed(stored[id])})

\* The dashboard of a day with an open and a closed entry has been
\* answered while a closed entry of another day is stored.
C17_Witness ==
  /\ DashboardAnswered
  /\ \E id \in DOMAIN Answered.todayRead :
       LET e == Answered.todayRead[id] IN e.date.a = DashboardDay /\ ~Closed(e)
  /\ \E id \in DOMAIN Answered.todayRead :
       LET e == Answered.todayRead[id] IN e.date.a = DashboardDay /\ Closed(e)
  /\ \E id \in DOMAIN Answered.todayRead :
       LET e == Answered.todayRead[id] IN e.date.a # DashboardDay /\ Closed(e)
  /\ res.body.stats.totalHours = Num(767)
  /\ res.body.stats.checkedInCount = 1

\* A dashboard asked without a date on a server west of UTC has been
\* answered with the entries of the day after the local day of the request.
DashboardOfUTCDay ==
  /\ DashboardAnswered /\ req.body.date = Undefined /\ tz < 0
  /\ DashboardDay = Now.a + 1
  /\ res.body.entries # <<>>
  /\ res.body.stats.totalHours.a > 0

\* The entries of the Monday-to-Sunday week of the day of the dashboard,
\* among the entries stored.
WeekOfDashboard(stored) ==
  LET monday == DashboardDay - (DashboardDay % 7)
  IN {id \in DOMAIN stored :
        monday <= stored[id].date.a /\ stored[id].date.a <= monday + 6}

\* The number of the employees that were active when the statistics read
\* them, and the hours of the week of the entries stored when the
\* statistics read the entries of the week.
ActiveRead ==
  Cardinality({e \in DOMAIN Answered.employeesRead :
                 Answered.employeesRead[e].status = "active"})
WeekHoursRead == ClosedHours(Answered.weekRead, WeekOfDashboard(Answered.weekRead))

\* C18: without active employees the avgHoursPerEmployee and the
\* weeklyAvgHours of the dashboard statistics are 0; with active employees
\* weeklyAvgHours is the sum of the totalHours of the entries of the Monday-
\* to-Sunday week of the date divided by five times the number of active
\* employees, at the two decimals of the statistics.
C18_WeeklyAverage ==
  DashboardAnswered
  => IF ActiveRead = 0
     THEN /\ res.body.stats.avgHoursPerEmployee = Num(0)
          /\ res.body.stats.weeklyAvgHours = Num(0)
     ELSE Rounded(res.body.stats.weeklyAvgHours.a, WeekHoursRead, ActiveRead * 5)

\* The dashboard has been answered while no employee is active and the day
\* and its week have entries with hours.
C18_Witness ==
  /\ DashboardAnswered
  /\ DOMAIN Answered.employeesRead # {}
  /\ ActiveRead = 0
  /\ WeekHoursRead > 0
  /\ res.body.stats.totalHours.a > 0
  /\ res.body.stats.weeklyAvgHours = Num(0)

\* C18 with the quotient taken exactly.
WeeklyAverageExact ==
  DashboardAnswered
  => (ActiveRead > 0
      => res.body.stats.weeklyAvgHours.a * ActiveRead * 5 = WeekHoursRead)

\* C19: formatTimeForInput applied to its result for a 12-hour string
\* "h:MM AM" or "h:MM PM", h from 1 to 12 and MM from 00 to 59, gives that
\* result again; the result is the 24-hour string of the same time of day.
C19_FormatIdempotent ==
  /\ req.op = "formatTimeForInput"
  /\ req.body.timeString.k \in {"AM", "PM"}
  /\ Len(res.body) = 2
  => /\ res.body[2] = res.body[1]
     /\ res.body[1].k = "24h"
     /\ res.body[1].a \in 0..23
     /\ res.body[1].b = req.body.timeString.b

\* formatTimeForInput has been applied twice from "1:05 PM" and from 13:05
\* gave 13:05.
C19_Witness ==
  /\ req.op = "formatTimeForInput"
  /\ req.body.timeString = T12(1, 5, "PM")
  /\ res.body = <<T24(13, 5), T24(13, 5)>>

\* C20: calculateTotalHours is null when the check-in or the check-out time
\* is missing, whatever the break; otherwise it is (d - breakMinutes) / 60
\* where d is the check-out minus the check-in minute of the day when that
\* is positive and 1440 more when it is not.  09:00 to 17:30 with a break
\* of 30 is 8 hours, 22:00 to 06:00 without break is 8 hours.  The result
\* is in minutes.
C20_TotalHours ==
  req.op = "calculateTotalHours" /\ Len(res.body) = 1
  => LET in == req.body.checkInTime
         out == req.body.checkOutTime
         diff == (out.a * 60 + out.b) - (in.a * 60 + in.b)
         d == IF diff > 0 THEN diff ELSE diff + 1440
     IN /\ IF in \in Missing \/ out \in Missing
           THEN res.body[1] = Null
           ELSE res.body[1] = Num(d - req.body.breakMinutes.a)
        /\ in = T24(9, 0) /\ out = T24(17, 30) /\ req.body.breakMinutes = Num(30)
             => res.body[1] = Num(8 * 60)
        /\ in = T24(22, 0) /\ out = T24(6, 0) /\ req.body.breakMinutes = Num(0)
             => res.body[1] = Num(8 * 60)

\* calculateTotalHours of 22:00, 06:00 and no break has given 8 hours.
C20_Witness ==
  /\ req.op = "calculateTotalHours"
  /\ req.body = [checkInTime |-> T24(22, 0), checkOutTime |-> T24(6, 0),
                 breakMinutes |-> Num(0)]
  /\ res.body = <<Num(8 * 60)>>

\* A daily report has been answered to an authenticated request that names
\* neither dateFrom nor dateTo.
DefaultRangeAnswered ==
  /\ req.op = "GET /api/reports" /\ req.auth /\ res.status = 200
  /\ req.body.reportType = "daily"
  /\ req.body.dateFrom = Undefined /\ req.body.dateTo = Undefined

\* C21: a daily report asked for without dateFrom and dateTo has 7 day
\* buckets, one for each of the 7 days that end today, in order.
C21_DefaultRange ==
  DefaultRangeAnswered
  => /\ Len(res.body.chartData) = 7
     /\ \A i \in DOMAIN res.body.chartData :
          res.body.chartData[i].key = Now.a - 7 + i

\* What the default range gives: a bucket for today and for each of the 7
\* days before it, the range of the report being from now minus 7 days to
\* now.
DefaultRangeEightDays ==
  DefaultRangeAnswered
  => /\ Len(res.body.chartData) = 8
     /\ \A i \in DOMAIN res.body.chartData :
          res.body.chartData[i].key = Now.a - 8 + i
     /\ res.body.dateRange = [from |-> subDays(Now, 7), to |-> Now]

\* A query returns no entry that was deleted before it was asked.  By id
\* it finds none.  The list, the dashboard and the report that have been
\* answered have read none: the list and the dashboard hold entries they
\* have read, and the report counts the entries it has read, which all
\* have hours.
NoDeletedEntryReturned ==
  /\ req.op = "GET /api/time-entries/:id" /\ req.auth /\ req.id \in DeletedEntries
       => res.status = 404
  /\ \A i \in DOMAIN calls :
       calls[i].pc = "responded" /\ res.status = 200
       => /\ calls[i].op = "GET /api/time-entries"
               => /\ Ids(res.body.entries) \cap calls[i].deleted = {}
                  /\ res.body.totalEntries
                       <= Cardinality((1..(nextEntryId - 1)) \ calls[i].deleted)
          /\ calls[i].op = "GET /api/dashboard"
               => /\ calls[i].read \cap calls[i].deleted = {}
                  /\ Ids(res.body.entries) \subseteq calls[i].read
          /\ calls[i].op = "GET /api/reports"
               => /\ calls[i].read \cap calls[i].deleted = {}
                  /\ res.body.employeeTotals.totalDays = Cardinality(calls[i].read)

\* C22: DELETE /api/time-entries/:id by an authenticated caller is answered
\* 204 and removes the entry of that id and nothing else: the other entries
\* and the employees are as before; an entry once deleted is never stored
\* again and no query asked afterwards returns it.
C22_DeleteExactlyOne ==
  /\ [][req'.op = "DELETE /api/time-entries/:id" /\ req'.auth
          => /\ res'.status = 204
             /\ entries' = [i \in DOMAIN entries \ {req'.id} |-> entries[i]]
             /\ employees' = employees]_vars
  /\ [][DeletedEntries \subseteq (1..(nextEntryId' - 1)) \ DOMAIN entries']_vars
  /\ []NoDeletedEntryReturned

\* An authenticated DELETE has been answered 204, its entry is deleted and
\* another entry is stored.
C22_Witness ==
  /\ req.op = "DELETE /api/time-entries/:id" /\ req.auth /\ res.status = 204
  /\ req.id \in DeletedEntries
  /\ DOMAIN entries # {}

\* The list, the report and the dashboard have been answered with an entry
\* to a request asked while another entry was deleted.
ListAfterDelete ==
  \E i \in DOMAIN calls :
    /\ calls[i].op = "GET /api/time-entries" /\ calls[i].pc = "responded"
    /\ calls[i].deleted # {} /\ res.body.entries # <<>>
ReportAfterDelete ==
  \E i \in DOMAIN calls :
    /\ calls[i].op = "GET /api/reports" /\ calls[i].pc = "responded"
    /\ calls[i].deleted # {} /\ calls[i].read # {}
DashboardAfterDelete ==
  \E i \in DOMAIN calls :
    /\ calls[i].op = "GET /api/dashboard" /\ calls[i].pc = "responded"
    /\ calls[i].deleted # {} /\ res.body.entries # <<>>

\* A list and a dashboard that are answered hold stored entries only: so
\* it is when no request is handled between their statements, and not
\* otherwise.
AnsweredEntriesStored ==
  \A i \in DOMAIN calls :
    calls[i].pc = "responded" /\ res.status = 200
      /\ calls[i].op \in {"GET /api/time-entries", "GET /api/dashboard"}
    => Ids(res.body.entries) \subseteq DOMAIN entries

\* Every call has returned.
AllReturned == \A i \in DOMAIN calls : calls[i].pc = "done"

\* C23: when a call of updateTimeEntry and a call of checkoutTimeEntry on
\* the same entry have run concurrently and both have returned, the
\* totalHours of the entry, if it has a check-out time, is the elapsed time
\* of its stored check-in time, check-out time and break minutes.
C23_InterleavedTotalDerived ==
  /\ AllReturned
  /\ Len(calls) = 2
  /\ {calls[1].op, calls[2].op} = {"updateTimeEntry", "checkoutTimeEntry"}
  /\ calls[1].id = calls[2].id
  /\ calls[1].id \in DOMAIN entries
  => LET e == entries[calls[1].id]
     IN Closed(e) => e.totalHours = DerivedTotal(e)

\* The same holds when calls do not overlap: a single call has run.
SingleCallTotalDerived ==
  AllReturned /\ Len(calls) = 1
  => \A id \in DOMAIN entries :
       Closed(entries[id]) => entries[id].totalHours = DerivedTotal(entries[id])

\* C24: a stored check-out time is never replaced: with calls of
\* checkoutTimeEntry running concurrently every step leaves the check-out
\* time of an entry that has one as it is.
C24_CheckOutWrittenOnce ==
  [][\A id \in DOMAIN entries :
       Closed(entries[id]) /\ id \in DOMAIN entries'
         => entries'[id].checkOutTime = entries[id].checkOutTime]_vars

\* The call of checkoutTimeEntry that reads the entry after the write of
\* another returns without a write.
CheckoutAfterWriteNoOp ==
  [][\A i \in DOMAIN calls :
       /\ calls[i].pc = "entry" /\ calls'[i].pc # "entry"
       /\ calls[i].id \in DOMAIN entries /\ Closed(entries[calls[i].id])
       => calls'[i].pc = "done" /\ entries' = entries]_vars

\* C25: a checkout gives the entry a check-out time and changes nothing
\* else but its totalHours: no statement of a call of checkoutTimeEntry
\* adds or removes an entry or changes another entry, or the employeeId,
\* date, checkInTime or breakMinutes of its entry, whatever is handled
\* between its statements; the entry has a check-out time when the call
\* returns it, and is as before after a statement that returns nothing.
C25_CheckoutFrame ==
  [][\A i \in DOMAIN calls :
       IsCheckout(calls[i]) /\ StepOf(i)
       => LET id == calls[i].id
          IN /\ DOMAIN entries' = DOMAIN entries
             /\ \A other \in DOMAIN entries \ {id} : entries'[other] = entries[other]
             /\ id \in DOMAIN entries
                  => /\ \A f \in {"employeeId", "date", "checkInTime", "breakMinutes"} :
                          entries'[id][f] = entries[id][f]
                     /\ calls'[i].ret = "row" => Closed(entries'[id])
                     /\ calls'[i].ret # "row" => entries'[id] = entries[id]]_vars

\* A call of checkoutTimeEntry has returned the entry, which is closed,
\* after a call of updateTimeEntry wrote the entry between its read and its
\* update statement, so that the totalHours written is not that of the
\* stored break; another entry is stored and open.
C25_Witness ==
  \E i, j \in DOMAIN calls :
    /\ calls[i].op = "checkoutTimeEntry" /\ calls[i].ret = "row"
    /\ calls[j].op = "updateTimeEntry" /\ calls[j].ret = "row"
    /\ calls[j].id = calls[i].id
    /\ calls[i].id \in DOMAIN entries
    /\ Closed(entries[calls[i].id])
    /\ entries[calls[i].id].totalHours # DerivedTotal(entries[calls[i].id])
    /\ \E id \in DOMAIN entries \ {calls[i].id} : ~Closed(entries[id])

\* C26: for every 24-hour time HH:MM, HH from 00 to 23 and MM from 00 to
\* 59, timeToMinutes of its 12-hour form is timeToMinutes of the time, the
\* minute of the day HH * 60 + MM; and calculateTotalHours of the 12-hour
\* forms of a check-in and a check-out time is calculateTotalHours of the
\* two times.
C26_TwelveHourLossless ==
  /\ req.op = "timeToMinutes" /\ Len(res.body) = 2
       => /\ res.body[2] = res.body[1]
          /\ res.body[1] = Num(req.body.timeString.a * 60 + req.body.timeString.b)
  /\ req.op = "calculateTotalHours" /\ Len(res.body) = 2
       => res.body[2] = res.body[1]

\* timeToMinutes of 00:30 and of its 12-hour form, 12:30 AM, have given 30.
C26_Witness ==
  /\ req.op = "timeToMinutes"
  /\ req.body.timeString = T24(0, 30)
  /\ res.body = <<Num(30), Num(30)>>

\* C27: the totalHours of every entry that has a check-out time is at
\* least 0 and at most 24 hours.
C27_TotalHoursInDay ==
  \A id \in DOMAIN entries :
    Closed(entries[id]) /\ entries[id].totalHours # Null
      => /\ entries[id].totalHours.k = "number"
         /\ 0 <= entries[id].totalHours.a /\ entries[id].totalHours.a <= 24 * 100

\* The same for the entries whose totalHours is a number, whose times are
\* times of the day and whose break is not negative and not longer than
\* the time from check-in to check-out on the wraparound clock, as they are
\* written by an insert or by the update statement of a call that finds the
\* entry as the call read it.
TotalHoursInDayForShortBreaks ==
  [][\A id \in DOMAIN entries' :
       LET e == entries'[id]
           diff == timeToMinutes(e.checkOutTime).a - timeToMinutes(e.checkInTime).a
           d == IF diff > 0 THEN diff ELSE diff + 24 * 60
       IN /\ Written(id) /\ ~StaleWrite
          /\ Closed(e) /\ e.totalHours.k = "number"
          /\ NaN \notin {timeToMinutes(e.checkInTime), timeToMinutes(e.checkOutTime)}
          /\ 0 <= e.breakMinutes.a /\ e.breakMinutes.a <= d
          => 0 <= e.totalHours.a /\ e.totalHours.a <= 24 * 100]_vars

\* C28: the checkedInCount of the dashboard statistics is at most their
\* number of active employees.
C28_CheckedInAtMostActive ==
  DashboardAnswered
  => res.body.stats.checkedInCount <= res.body.stats.activeEmployees

\* An employee has at most one entry without check-out time on a date:
\* createTimeEntry does not look for another entry, so this is no invariant.
OneOpenEntryPerEmployeeAndDate ==
  \A i, j \in DOMAIN entries :
    /\ entries[i].employeeId = entries[j].employeeId
    /\ entries[i].date.a = entries[j].date.a
    /\ ~Closed(entries[i]) /\ ~Closed(entries[j])
    => i = j

\* The employees that are keys of the values of some bucket of the chart.
ChartKeys ==
  UNION {DOMAIN res.body.chartData[i].values : i \in DOMAIN res.body.chartData}

\* The sum of the values of employee e over the buckets of the chart.
ChartTotal(e) ==
  LET with == {i \in DOMAIN res.body.chartData : e \in DOMAIN res.body.chartData[i].values}
  IN Sum([i \in with |-> Hundredths(res.body.chartData[i].values[e])], with)

\* Every key of the chart is an employee of the employees list of the report.
ChartKeysInLegend == ReportAnswered => ChartKeys \subseteq Ids(res.body.employees)

\* In a daily report the values of an employee in the chart add up to the
\* totalHours of the row of that employee in the summary.
DailyChartMatchesSummary ==
  ReportAnswered /\ req.body.reportType = "daily"
  => \A e \in ChartKeys :
       \E i \in DOMAIN res.body.summaryData :
          /\ res.body.summaryData[i].employeeId = e
          /\ Hundredths(res.body.summaryData[i].totalHours) = ChartTotal(e)

\* C29: in every report each employee that is a key of the values of a
\* bucket is in the employees list of the report, and in a daily report the
\* values of an employee add up to the totalHours of its summary row.
C29_ChartAgreesWithLegendAndSummary ==
  ChartKeysInLegend /\ DailyChartMatchesSummary

\* The same for the reports without employee filter when every employee
\* with entries is active, the start of the range is not later in its day
\* than the end is in its own and no request was handled between the
\* statements of the report.
ChartAgreesWhenAllActive ==
  /\ ReportAnswered
  /\ ReadAtOnce
  /\ parseISO(req.body.dateFrom).b <= parseISO(req.body.dateTo).b
  /\ ~Truthy(reportFilters(req.body).employeeId)
  /\ \A id \in DOMAIN entries : employees[entries[id].employeeId.a].status = "active"
  => /\ ChartKeys \subseteq Ids(res.body.employees)
     /\ req.body.reportType = "daily"
          => \A e \in ChartKeys :
               \E i \in DOMAIN res.body.summaryData :
                  /\ res.body.summaryData[i].employeeId = e
                  /\ Hundredths(res.body.summaryData[i].totalHours) = ChartTotal(e)

\* getTimeEntries has returned.
PageReturned == req.op = "getTimeEntries" /\ res.status = 200

\* The entries that match the filter of the call, among the entries
\* stored.
Matching(stored) ==
  {id \in DOMAIN stored :
     /\ req.body.dateFrom # Undefined => req.body.dateFrom.a <= stored[id].date.a
     /\ req.body.employeeId # Undefined => stored[id].employeeId = req.body.employeeId}

\* totalPages is the number of entries over the page size, rounded up; the
\* entries are those stored when they were counted.
TotalPagesIsCeiling ==
  PageReturned
  => /\ res.body.totalEntries = Cardinality(Matching(Answered.countRead))
     /\ (res.body.totalPages - 1) * req.body.pageSize < res.body.totalEntries
     /\ res.body.totalEntries <= res.body.totalPages * req.body.pageSize

\* The pages 1 to totalPages hold every matching entry once, newest date
\* first and on a date newest creation first: page p is the part of that
\* order from (p - 1) * pageSize + 1 on, of pageSize entries or to the end.
PagesPartitionInOrder ==
  PageReturned
  => \A p \in 1..((Cardinality(Matching(entries)) + req.body.pageSize - 1)
                    \div req.body.pageSize) :
       LET page == pageEntries([req.body EXCEPT !.page = Num(p)])
           first == (p - 1) * req.body.pageSize
       IN /\ Len(page) = Min(req.body.pageSize, Cardinality(Matching(entries)) - first)
          /\ \A i \in DOMAIN page : page[i] \in Matching(entries)
          /\ \A i \in DOMAIN page :
               Cardinality({id \in Matching(entries) :
                              \/ entries[id].date.a > entries[page[i]].date.a
                              \/ /\ entries[id].date.a = entries[page[i]].date.a
                                 /\ id > page[i]}) = first + i - 1

\* With entries, startIndex <= endIndex and the entries of the page are as
\* many as the indices from startIndex to endIndex.
IndicesCountPage ==
  PageReturned /\ res.body.totalEntries > 0
  => /\ res.body.startIndex.a <= res.body.endIndex.a
     /\ res.body.endIndex.a - res.body.startIndex.a + 1 = Len(res.body.entries)

\* C30: for every page >= 1 and pageSize >= 1 the result of getTimeEntries
\* has totalPages = ceil(totalEntries / pageSize), the pages 1 to totalPages
\* hold every matching entry exactly once in the order of date, then
\* creation time, descending, and with entries startIndex <= endIndex and
\* endIndex - startIndex + 1 is the number of entries of the page.
C30_PaginationConsistent ==
  TotalPagesIsCeiling /\ PagesPartitionInOrder /\ IndicesCountPage

\* The indices for the pages that exist, when no entry was created
\* between the two statements of the call.
IndicesCountExistingPage ==
  PageReturned /\ ReadAtOnce /\ req.body.page.a <= res.body.totalPages
  => /\ res.body.startIndex.a <= res.body.endIndex.a
     /\ res.body.endIndex.a - res.body.startIndex.a + 1 = Len(res.body.entries)

\* An entry whose check-in time is set has the derived totalHours when it
\* is written by an insert or by the update statement of a call that finds
\* the entry as the call read it; a call whose entry was written between
\* its read and its update statement writes the totalHours of what it read
\* (C23).
TotalHoursDerivedWithCheckIn ==
  [][\A id \in DOMAIN entries' :
       /\ Written(id) /\ ~StaleWrite
       /\ Closed(entries'[id]) /\ IsSet(entries'[id].checkInTime)
       => entries'[id].totalHours = DerivedTotal(entries'[id])]_vars

\* An entry whose check-in time is set is OPEN or CLOSED when it is written
\* by an insert or by the update statement of a call that finds the entry
\* as the call read it.
OpenOrClosedWithCheckIn ==
  [][\A id \in DOMAIN entries' :
       Written(id) /\ ~StaleWrite /\ IsSet(entries'[id].checkInTime) =>
         \/ entries'[id].checkOutTime = Null /\ entries'[id].totalHours = Null
         \/ /\ IsSet(entries'[id].checkOutTime)
            /\ entries'[id].totalHours.k = "number"]_vars

====
